---------------------------- MODULE Spec2Model ----------------------------
(***************************************************************************)
(* OpenSesame: the command relay between the helper service (Express       *)
(* server, src/unnamed/part_002) and the extension's service worker        *)
(* (src/background.js), and the agent turn run by POST /invoke.            *)
(*                                                                         *)
(* Strings that the code inspects with String.includes are modelled as     *)
(* sequences of tokens; Includes is a contiguous sub-sequence search, so   *)
(* "Task completed!" does not include "Task completed successfully".       *)
(***************************************************************************)
EXTENDS Integers, Sequences, FiniteSets, TLC

\* ------------------------------------------------------------------ bounds
StartMs == 1000          \* Date.now() when the model starts
MaxNow == 2000           \* the clock is not advanced beyond this (Spec)
MaxNowRelay == 2500      \* the same bound in SpecRelay
MaxNowRace == 2000       \* the same bound in SpecRace
MaxJitter == 1           \* 1 ms steps allowed within each 500 ms block
MaxPasses == 2           \* drain passes of the poller alive at the same time (SpecRelay)
OnePass == 1             \* the same bound in Spec and SpecRace
NumTurns == 2            \* concurrent POST /invoke requests (SpecRace)
CallsPerTurn == 1        \* tool calls the model asks for in a turn (SpecRelay, SpecRace)
WaitToolMs == 500        \* the milliseconds argument the model gives the wait tool
MaxNowShot == 6000       \* the clock bound in SpecShot: ten polls of take_screenshot

\* ------------------------------------------------------ program constants
maxIterations == 2
maxAttempts == 10
TabWaitMs == 1000
ShotPollMs == 500
PollIntervalMs == 500
RateLimitMs == 500

NULL == "null"

VARIABLES
    now,                  \* Date.now(), milliseconds
    pendingTabRequests,   \* the Map, as the sequence of its entries in insertion order
    createdBy,            \* history: id -> the turn whose tool last inserted the id
    browserContext,       \* NULL or the id of the context launchPersistentContext returned
    page,                 \* NULL, the id of the context whose page it is, or "closed"
    contexts,             \* history: every launchPersistentContext call, by its state
    hasStoredSession,     \* browser-data/Default exists
    turns,                \* per POST /invoke: the handler's and the executor's position
    tabPollingInterval,   \* 0 (no timer) or the time the interval timer is due next
    lastScreenshotTime,   \* 0 (null) or the time of the last accepted capture
    passes,               \* the timer callbacks of the poller that have not finished
    calendar,             \* a call of parseDateTimeString and what is typed from it
    timers,               \* history: the setInterval timers of the poller not yet cleared
    storage,              \* chrome.storage.local: chats, currentChatId, lastUpdateTimestamp
    floatingChats         \* per tab: the globals of its floating chat content script

vars == <<now, pendingTabRequests, createdBy, browserContext, page, contexts, hasStoredSession,
          turns, tabPollingInterval, lastScreenshotTime, passes, calendar, timers, storage,
          floatingChats>>

Turns == 1..NumTurns

\* ----------------------------------------------------------------- strings
Includes(s, m) ==
    \E i \in 1..(Len(s) - Len(m) + 1) : SubSeq(s, i, i + Len(m) - 1) = m

MaxIterMsg == <<"Agent stopped due to max iterations", ".">>
FinalAnswerText == <<"I", "have", "handled", "your", "request", ".">>

\* ------------------------------------------------------------- the JS Map
MapIds(m) == {m[i].id : i \in 1..Len(m)}
MapHas(m, id) == id \in MapIds(m)
MapIndex(m, id) == CHOOSE i \in 1..Len(m) : m[i].id = id
MapGet(m, id) == m[MapIndex(m, id)].data
MapSet(m, id, d) ==
    IF MapHas(m, id)
    THEN [m EXCEPT ![MapIndex(m, id)].data = d]
    ELSE Append(m, [id |-> id, data |-> d])
MapDelete_Keep(m, id) == m

MapDelete(m, id) ==
    IF MapHas(m, id)
    THEN [j \in 1..(Len(m) - 1) |-> IF j < MapIndex(m, id) THEN m[j] ELSE m[j + 1]]
    ELSE m

\* Date.now().toString()
RequestId(t) == ToString(t)

TabRecord(url) ==
    [action |-> NULL, url |-> url, serviceName |-> url, status |-> "pending",
     dataUrl |-> NULL, success |-> FALSE, filename |-> NULL, downloadId |-> 0,
     error |-> <<>>]
ShotRecord ==
    [action |-> "screenshot", url |-> NULL, serviceName |-> NULL, status |-> "pending",
     dataUrl |-> NULL, success |-> FALSE, filename |-> NULL, downloadId |-> 0,
     error |-> <<>>]


\* --------------------------------------------------------- tool outputs
TabUrl == "https://sheets.google.com"

OpenedObserved == <<"Task", "completed", "successfully", "!", "I have opened", TabUrl,
                    "in a new tab for you.">>
OpenedRequested == <<"Task", "completed", "!", "I have requested to open", TabUrl,
                     "in a new tab.">>
NavigatedObserved == <<"Successfully", "opened", TabUrl,
                       "in a new tab in your current browser window.">>
NavigatedRequested == <<"Requested to open", TabUrl,
                        "in a new tab in your current browser window.">>
ShotSaved(filename) == <<"Screenshot", "taken", "successfully",
                         "and saved to Downloads folder as", filename>>
ShotTaken == <<"Screenshot", "taken", "successfully", "using Chrome Extension API">>
Waited == <<"Waited for", ToString(WaitToolMs), "ms">>
EventCreated == <<"Successfully", "created", "calendar event:", "title">>
EmailSent == <<"Successfully", "sent", "email to", "recipient", "with subject",
               "subject", "regarding:", "request">>

NoTargetMsg == <<"Please provide either a service name, URL, or search query">>
RateLimitMsg == <<"Screenshot rate limit exceeded.",
                  "Please wait before taking another screenshot.">>
CaptureFailedMsg == <<"capture failed">>
ShotTimeoutMsg == <<"Screenshot request timed out",
                    "- make sure the Chrome extension is active">>
ShotFailed(msg) == <<"Failed to take screenshot:">> \o msg
ScriptFailedMsg == <<"page action failed">>
LaunchFailedMsg == <<"browser launch failed">>
NotLoggedInMsg == <<"Not logged into Gmail.",
                    "Please log in first using the Google login tool.">>
EmailFailed(msg) == <<"Failed to send email:">> \o msg

\* --------------------------------------------------------- Date objects
\* A Date is modelled by its local calendar date [year, month, day], month in
\* 1..12 (getMonth() + 1); two Dates made in the same call have the same time
\* of day.  Day numbers count from the first of January of EpochYear.
EpochYear == 2026

\* getDay() of the first of January of EpochYear (a Thursday)
EpochDay == 4

IsLeap(y) == (y % 4 = 0 /\ y % 100 # 0) \/ y % 400 = 0

DaysInMonth(y, m) ==
    IF m = 2 THEN (IF IsLeap(y) THEN 29 ELSE 28)
    ELSE IF m \in {4, 6, 9, 11} THEN 30 ELSE 31

DaysInYear(y) == IF IsLeap(y) THEN 366 ELSE 365

RECURSIVE DaysBeforeYear(_)
DaysBeforeYear(y) ==
    IF y <= EpochYear THEN 0 ELSE DaysBeforeYear(y - 1) + DaysInYear(y - 1)

RECURSIVE DaysBeforeMonth(_, _)
DaysBeforeMonth(y, m) ==
    IF m <= 1 THEN 0 ELSE DaysBeforeMonth(y, m - 1) + DaysInMonth(y, m - 1)

\* The day number of day d of month m of year y; d is any integer.
DayNumber(y, m, d) == DaysBeforeYear(y) + DaysBeforeMonth(y, m) + d - 1

DayOf(date) == DayNumber(date.year, date.month, date.day)

RECURSIVE YearOfDay(_, _)
YearOfDay(n, y) == IF n < DaysBeforeYear(y + 1) THEN y ELSE YearOfDay(n, y + 1)

RECURSIVE MonthOfDay(_, _, _)
MonthOfDay(n, y, m) ==
    IF n < DayNumber(y, m, 1) + DaysInMonth(y, m) THEN m ELSE MonthOfDay(n, y, m + 1)

\* The Date of day number n >= 0.
DateOfDay(n) ==
    LET y == YearOfDay(n, EpochYear)
        m == MonthOfDay(n, y, 1)
    IN [year |-> y, month |-> m, day |-> n - DayNumber(y, m, 1) + 1]

\* new Date(year, monthIndex, day) as the setters normalise it: a month index
\* outside 0..11 carries into the year, a day outside the month into the
\* neighbouring months.
MakeDate(y, monthIndex, d) ==
    DateOfDay(DayNumber(y + (monthIndex \div 12), (monthIndex % 12) + 1, 1) + d - 1)

GetDay(date) == (EpochDay + DayOf(date)) % 7

SetDate_NoCarry(date, d) == [date EXCEPT !.day = d]

SetDate(date, d) == MakeDate(date.year, date.month - 1, d)

SetMonth(date, monthIndex) == MakeDate(date.year, monthIndex, date.day)

SetFullYear(date, y) == MakeDate(y, date.month - 1, date.day)

\* targetDate < now, for a targetDate made after now in the same call
Earlier(targetDate, today) == DayOf(targetDate) < DayOf(today)

\* ------------------------------------------------------ the dateTime text
\* A string is a sequence of characters, the dateTime text a sequence of
\* tokens with one space between them: a word, a number with what is written
\* right after it ("10th", "3pm", "3:30pm", "10:00", "12") or "<m>/<d>".
Word(w) ==
    [kind |-> "word", w |-> w, n |-> 0, colon |-> FALSE, mm |-> 0, sfx |-> "", d |-> 0]

Num(n, sfx) ==
    [kind |-> "num", w |-> <<>>, n |-> n, colon |-> FALSE, mm |-> 0, sfx |-> sfx, d |-> 0]

Clock(n, mm, sfx) ==
    [kind |-> "num", w |-> <<>>, n |-> n, colon |-> TRUE, mm |-> mm, sfx |-> sfx, d |-> 0]

Slash(m, d) ==
    [kind |-> "slash", w |-> <<>>, n |-> m, colon |-> FALSE, mm |-> 0, sfx |-> "", d |-> d]

UpperLetters ==
    <<"A", "B", "C", "D", "E", "F", "G", "H", "I", "J", "K", "L", "M", "N", "O", "P", "Q", "R", "S", "T", "U", "V", "W", "X", "Y", "Z">>

LowerLetters ==
    <<"a", "b", "c", "d", "e", "f", "g", "h", "i", "j", "k", "l", "m", "n", "o", "p", "q", "r", "s", "t", "u", "v", "w", "x", "y", "z">>

LowerChar(c) ==
    IF \E i \in 1..Len(UpperLetters) : UpperLetters[i] = c
    THEN LowerLetters[CHOOSE i \in 1..Len(UpperLetters) : UpperLetters[i] = c]
    ELSE c

\* String.prototype.toLowerCase
LowerString(s) == [i \in 1..Len(s) |-> LowerChar(s[i])]

\* String.prototype.startsWith
StartsWith(s, p) == Len(p) <= Len(s) /\ SubSeq(s, 1, Len(p)) = p

EndsWith(s, p) == Len(p) <= Len(s) /\ SubSeq(s, Len(s) - Len(p) + 1, Len(s)) = p

\* String.prototype.includes, within one word
IncludesString(s, k) ==
    \E i \in 0..(Len(s) - Len(k)) : SubSeq(s, i + 1, i + Len(k)) = k

\* String.prototype.substring(0, 3)
Substring3(s) == SubSeq(s, 1, IF Len(s) < 3 THEN Len(s) ELSE 3)

\* the case-insensitive (am|pm|AM|PM) written right after a number
LowerSuffix(sfx) ==
    CASE sfx = "AM" -> "am"
      [] sfx = "PM" -> "pm"
      [] OTHER -> sfx

\* toUpperCase of what (am|pm|AM|PM) matched
UpperPeriod(lowered) == IF lowered = "am" THEN "AM" ELSE "PM"

kTomorrow == <<"t", "o", "m", "o", "r", "r", "o", "w">>

kToday == <<"t", "o", "d", "a", "y">>

kNext == <<"n", "e", "x", "t">>

kWeek == <<"w", "e", "e", "k">>

kIn == <<"i", "n">>

kDay == <<"d", "a", "y">>

kNoon == <<"n", "o", "o", "n">>

kMidnight == <<"m", "i", "d", "n", "i", "g", "h", "t">>

kAm == <<"a", "m">>

kPm == <<"p", "m">>

\* the weekday names of the includes tests, by getDay() + 1
WeekdayNames ==
    << <<"s", "u", "n", "d", "a", "y">>,
       <<"m", "o", "n", "d", "a", "y">>,
       <<"t", "u", "e", "s", "d", "a", "y">>,
       <<"w", "e", "d", "n", "e", "s", "d", "a", "y">>,
       <<"t", "h", "u", "r", "s", "d", "a", "y">>,
       <<"f", "r", "i", "d", "a", "y">>,
       <<"s", "a", "t", "u", "r", "d", "a", "y">> >>

\* the order of the weekday tests, as getDay() values
WeekdayOrder == <<1, 2, 3, 4, 5, 6, 0>>

monthNames ==
    << <<"j", "a", "n", "u", "a", "r", "y">>,
       <<"f", "e", "b", "r", "u", "a", "r", "y">>,
       <<"m", "a", "r", "c", "h">>,
       <<"a", "p", "r", "i", "l">>,
       <<"m", "a", "y">>,
       <<"j", "u", "n", "e">>,
       <<"j", "u", "l", "y">>,
       <<"a", "u", "g", "u", "s", "t">>,
       <<"s", "e", "p", "t", "e", "m", "b", "e", "r">>,
       <<"o", "c", "t", "o", "b", "e", "r">>,
       <<"n", "o", "v", "e", "m", "b", "e", "r">>,
       <<"d", "e", "c", "e", "m", "b", "e", "r">> >>

shortMonthNames ==
    << <<"j", "a", "n">>,
       <<"f", "e", "b">>,
       <<"m", "a", "r">>,
       <<"a", "p", "r">>,
       <<"m", "a", "y">>,
       <<"j", "u", "n">>,
       <<"j", "u", "l">>,
       <<"a", "u", "g">>,
       <<"s", "e", "p">>,
       <<"o", "c", "t">>,
       <<"n", "o", "v">>,
       <<"d", "e", "c">> >>

\* toLocaleDateString('en-US', { month: 'long' })
LongMonthNames ==
    << <<"J", "a", "n", "u", "a", "r", "y">>,
       <<"F", "e", "b", "r", "u", "a", "r", "y">>,
       <<"M", "a", "r", "c", "h">>,
       <<"A", "p", "r", "i", "l">>,
       <<"M", "a", "y">>,
       <<"J", "u", "n", "e">>,
       <<"J", "u", "l", "y">>,
       <<"A", "u", "g", "u", "s", "t">>,
       <<"S", "e", "p", "t", "e", "m", "b", "e", "r">>,
       <<"O", "c", "t", "o", "b", "e", "r">>,
       <<"N", "o", "v", "e", "m", "b", "e", "r">>,
       <<"D", "e", "c", "e", "m", "b", "e", "r">> >>

\* ---------------------------------------------------- parseDateTimeString
\* lowerDateTime.includes(k) for a k of one word
IncludesWord(text, k) ==
    \E i \in 1..Len(text) :
        text[i].kind = "word" /\ IncludesString(LowerString(text[i].w), k)

\* lowerDateTime.includes('<a> <b>')
IncludesPair(text, a, b) ==
    \E i \in 1..(Len(text) - 1) :
        /\ text[i].kind = "word" /\ EndsWith(LowerString(text[i].w), a)
        /\ text[i + 1].kind = "word" /\ StartsWith(LowerString(text[i + 1].w), b)

\* x || 7
OrSeven(x) == IF x = 0 THEN 7 ELSE x

\* the days added for 'next <weekday>', d the weekday's getDay() value
DaysToNext(d, targetDate) == OrSeven((d + 7 - GetDay(targetDate)) % 7)

\* the days added for '<weekday>'
DaysUntil_NoOrSeven(d, targetDate) == (d - GetDay(targetDate) + 7) % 7

DaysUntil(d, targetDate) == OrSeven((d - GetDay(targetDate) + 7) % 7)

\* the weekday tests that hold, as positions in WeekdayOrder
NextWeekdayTests(text) ==
    { j \in 1..Len(WeekdayOrder) :
        IncludesPair(text, kNext, WeekdayNames[WeekdayOrder[j] + 1]) }

WeekdayTests(text) ==
    { j \in 1..Len(WeekdayOrder) :
        IncludesWord(text, WeekdayNames[WeekdayOrder[j] + 1]) }

Least(S) == CHOOSE x \in S : \A y \in S : x <= y

\* /in\s+(\d+)\s+days?/ matching from token i
InDaysAt(text, i) ==
    /\ i + 2 <= Len(text)
    /\ text[i].kind = "word" /\ EndsWith(LowerString(text[i].w), kIn)
    /\ text[i + 1].kind = "num" /\ ~text[i + 1].colon /\ text[i + 1].sfx = ""
    /\ text[i + 2].kind = "word" /\ StartsWith(LowerString(text[i + 2].w), kDay)

inDaysMatch(text) == { i \in 1..Len(text) : InDaysAt(text, i) }

\* /(\w+)\s+(\d+)(?:st|nd|rd|th)?/i matching from token i: every token ends
\* with a word character, so it matches where the next token begins with a
\* digit.
monthDayMatch(text) ==
    { i \in 1..(Len(text) - 1) : text[i + 1].kind \in {"num", "slash"} }

\* monthDayMatch[1].toLowerCase(): the word, or for a token that is not a
\* word its last run of word characters, which begins with a digit
monthStr(tok) == IF tok.kind = "word" THEN LowerString(tok.w) ELSE <<"0">>

\* findIndex over the full names and then over the short names; -1 if none
monthIndex(str) ==
    LET full == { i \in 1..Len(monthNames) : StartsWith(monthNames[i], str) }
        short == { i \in 1..Len(shortMonthNames) :
                     shortMonthNames[i] = Substring3(str) }
    IN IF full # {} THEN Least(full) - 1
       ELSE IF short # {} THEN Least(short) - 1
       ELSE -1

\* /(\d{1,2})\/(\d{1,2})/
slashDateMatch(text) == { i \in 1..Len(text) : text[i].kind = "slash" }

\* setMonth(index) and then setDate(day)
SetMonthDay(today, index, day) == SetDate(SetMonth(today, index), day)

NextYearIfPast_Never(moved, today) == moved

\* if (targetDate < now) targetDate.setFullYear(targetDate.getFullYear() + 1)
NextYearIfPast(moved, today) ==
    IF Earlier(moved, today) THEN SetFullYear(moved, moved.year + 1) ELSE moved

MonthDayDate(today, index, day) ==
    NextYearIfPast(SetMonthDay(today, index, day), today)

\* targetDate at the return
TargetDate(text, today) ==
    IF IncludesWord(text, kTomorrow) THEN SetDate(today, today.day + 1)
    ELSE IF IncludesWord(text, kToday) THEN today
    ELSE IF IncludesPair(text, kNext, kWeek) THEN SetDate(today, today.day + 7)
    ELSE IF NextWeekdayTests(text) # {}
    THEN SetDate(today, today.day
            + DaysToNext(WeekdayOrder[Least(NextWeekdayTests(text))], today))
    ELSE IF WeekdayTests(text) # {}
    THEN SetDate(today, today.day
            + DaysUntil(WeekdayOrder[Least(WeekdayTests(text))], today))
    ELSE IF inDaysMatch(text) # {}
    THEN SetDate(today, today.day + text[Least(inDaysMatch(text)) + 1].n)
    ELSE IF monthDayMatch(text) # {}
    THEN LET i == Least(monthDayMatch(text))
             index == monthIndex(monthStr(text[i]))
         IN IF index # -1 THEN MonthDayDate(today, index, text[i + 1].n)
            ELSE today
    ELSE IF slashDateMatch(text) # {}
    THEN LET tok == text[Least(slashDateMatch(text))]
         IN MonthDayDate(today, tok.n - 1, tok.d)
    ELSE today

\* a word that begins with am or pm, in either case
IsMeridiemWord(tok) ==
    /\ tok.kind = "word"
    /\ \/ StartsWith(LowerString(tok.w), kAm)
       \/ StartsWith(LowerString(tok.w), kPm)

\* (\d{1,2})(?::(\d{2}))?\s*(am|pm|AM|PM) matching in token i: one or two
\* digits, with the meridiem right after them or after one space
ClockAt(text, i) ==
    \/ text[i].kind = "num" /\ LowerSuffix(text[i].sfx) \in {"am", "pm"}
    \/ /\ text[i].kind \in {"num", "slash"} /\ text[i].sfx = ""
       /\ i < Len(text) /\ IsMeridiemWord(text[i + 1])

NoonAt(text, i) ==
    text[i].kind = "word" /\ IncludesString(LowerString(text[i].w), kNoon)

MidnightAt(text, i) ==
    text[i].kind = "word" /\ IncludesString(LowerString(text[i].w), kMidnight)

\* where the time expression matches; the match is the leftmost one
timeMatch(text) ==
    { i \in 1..Len(text) :
        ClockAt(text, i) \/ NoonAt(text, i) \/ MidnightAt(text, i) }

\* targetTime null
NoTime == [hour |-> 0, minute |-> 0, period |-> NULL]

\* (timeMatch[3] || '').toUpperCase()
PeriodAt(text, i) ==
    IF text[i].sfx # "" THEN UpperPeriod(LowerSuffix(text[i].sfx))
    ELSE IF StartsWith(LowerString(text[i + 1].w), kAm) THEN "AM"
    ELSE "PM"

\* the period taken when none is written
finalPeriod(hour, period) ==
    IF period # "" THEN period
    ELSE IF hour = 12 THEN "PM"
    ELSE IF hour >= 1 /\ hour <= 6 THEN "PM"
    ELSE IF hour >= 7 /\ hour <= 11 THEN "AM"
    ELSE "PM"

\* targetTime at the return
TargetTime(text) ==
    IF timeMatch(text) = {} THEN NoTime
    ELSE LET i == Least(timeMatch(text))
         IN IF NoonAt(text, i) THEN [hour |-> 12, minute |-> 0, period |-> "PM"]
            ELSE IF MidnightAt(text, i)
            THEN [hour |-> 12, minute |-> 0, period |-> "AM"]
            ELSE LET hour == IF text[i].kind = "slash" THEN text[i].d
                             ELSE text[i].n
                     minute == IF text[i].colon THEN text[i].mm ELSE 0
                 IN [hour |-> hour, minute |-> minute,
                     period |-> finalPeriod(hour, PeriodAt(text, i))]

parseDateTimeString(dateTimeStr, today) ==
    [targetDate |-> TargetDate(dateTimeStr, today),
     targetTime |-> TargetTime(dateTimeStr)]

\* ------------------------------------------- create_calendar_event, typing
\* `${monthName}, ${day}, ${year}`
formattedDate(targetDate) ==
    <<LongMonthNames[targetDate.month], targetDate.day, targetDate.year>>

\* minute.toString().padStart(2, '0'), as its two digits
PadStart2(minute) == <<minute \div 10, minute % 10>>

\* `${hour}:${minute} ${period}`
startTimeString(targetTime) ==
    <<targetTime.hour, PadStart2(targetTime.minute), targetTime.period>>

endHour_NoWrap(targetTime) == targetTime.hour + 1

endHour(targetTime) ==
    IF targetTime.hour = 12 /\ targetTime.period = "AM" THEN 1
    ELSE IF targetTime.hour = 11 /\ targetTime.period = "AM" THEN 12
    ELSE IF targetTime.hour = 12 /\ targetTime.period = "PM" THEN 1
    ELSE IF targetTime.hour = 11 /\ targetTime.period = "PM" THEN 12
    ELSE IF targetTime.period = "AM" THEN targetTime.hour + 1
    ELSE targetTime.hour + 1

endPeriod_FlipAtTwelve(targetTime) ==
    IF targetTime.hour \in {11, 12}
    THEN (IF targetTime.period = "AM" THEN "PM" ELSE "AM")
    ELSE targetTime.period

endPeriod(targetTime) ==
    IF targetTime.hour = 12 /\ targetTime.period = "AM" THEN "AM"
    ELSE IF targetTime.hour = 11 /\ targetTime.period = "AM" THEN "PM"
    ELSE IF targetTime.hour = 12 /\ targetTime.period = "PM" THEN "PM"
    ELSE IF targetTime.hour = 11 /\ targetTime.period = "PM" THEN "AM"
    ELSE targetTime.period

\* `${endHour}:${minute} ${endPeriod}`
endTimeString(targetTime) ==
    <<endHour(targetTime), PadStart2(targetTime.minute), endPeriod(targetTime)>>

\* ----------------------------------------- the typing steps and their inputs
\* The current dates taken: NowDayCount days from day number FirstNowDay (the
\* 25th of December 2027), across a year end and a 29th of February.
FirstNowDay == 723

NowDayCount == 129

NowDays == FirstNowDay..(FirstNowDay + NowDayCount - 1)

MaxInDays == 3

MaxHour == 13

wAt == Word(<<"a", "t">>)

wOn == Word(<<"o", "n">>)

wToday == Word(<<"T", "o", "d", "a", "y">>)

wDays == Word(<<"d", "a", "y", "s">>)

wJune == Word(<<"J", "u", "n", "e">>)

wDec == Word(<<"D", "e", "c">>)

wFeb == Word(<<"F", "e", "b">>)

wJanuary == Word(<<"j", "a", "n", "u", "a", "r", "y">>)

wAfternoon == Word(<<"a", "f", "t", "e", "r", "n", "o", "o", "n">>)

wAM == Word(<<"A", "M">>)

wPM == Word(<<"P", "M">>)

MonthWords == {wJune, wDec, wFeb, wJanuary}

DayTokens == {Num(10, "th"), Num(29, ""), Num(1, "st")}

\* the date expressions written
DateParts ==
    { <<>>, <<Word(kTomorrow)>>, <<wToday>>, <<Word(kNext), Word(kWeek)>>,
      <<wOn, wJune, Num(10, "th")>>,
      <<Slash(12, 25)>>, <<Slash(2, 10)>>, <<wOn, Slash(6, 10)>> }
    \cup { <<Word(kNext), Word(WeekdayNames[i])>> : i \in 1..Len(WeekdayNames) }
    \cup { <<Word(WeekdayNames[i])>> : i \in 1..Len(WeekdayNames) }
    \cup { <<Word(kIn), Num(n, ""), IF n = 1 THEN Word(kDay) ELSE wDays>> :
             n \in (0..MaxInDays) \cup {45} }
    \cup { <<m, d>> : m \in MonthWords, d \in DayTokens }

\* the time expressions written
TimeParts ==
    { <<>>, <<wAt, Word(kNoon)>>, <<Word(kNoon)>>, <<wAt, Word(kMidnight)>>,
      <<wAt, Clock(10, 0, ""), wAM>>, <<wAt, Num(11, ""), wPM>>,
      <<wAfternoon, wAt, Num(3, "pm")>> }
    \cup { <<wAt, Num(h, sfx)>> : h \in 0..MaxHour, sfx \in {"am", "pm", ""} }
    \cup { <<wAt, Clock(h, mm, sfx)>> :
             h \in {3, 11, 12}, mm \in {5, 30, 60}, sfx \in {"am", "pm"} }

FewDateParts == { <<>>, <<Word(kTomorrow)>>, <<wJune, Num(10, "th")>> }

FewTimeParts == { <<>>, <<wAt, Num(6, "pm")>>, <<wAt, Num(12, "")>>, <<wAt, Word(kNoon)>> }

\* the dateTime arguments: a date expression and then a time expression
DateTimes ==
    { d \o t : d \in DateParts, t \in FewTimeParts }
        \cup { d \o t : d \in FewDateParts, t \in TimeParts }

NoDate == [year |-> EpochYear, month |-> 1, day |-> 1]

NoParse == [targetDate |-> NoDate, targetTime |-> NoTime]

\* ------------------------------------------------- the floating chat, data
NumChatTabs == 2         \* tabs with an open floating chat
MaxSubmits == 1          \* requests submitted in the floating chat of one tab
MaxChatTicks == 1        \* debounce periods the clock advances (SpecChat)
DebounceMs == 100

ChatTabs == 1..NumChatTabs

\* chrome.storage.local with nothing saved yet.  chats is the object saved
\* under 'chats', as a Map from chat id to the chat's messages.
NoStorage == [chats |-> <<>>, currentChatId |-> NULL, lastUpdateTimestamp |-> 0]

\* The globals of a content script whose floating chat has been created and
\* whose loadSavedChats() found nothing.  aliased: chatHistory is the array
\* that allChats[currentChatId].messages refers to.  changes: the
\* storage.onChanged events not yet delivered to the listener.  timeout: 0 or
\* the time updateChatList.timeout is due.  pc: the submit handler's position.
\* fired: the 30 second timer has fired (the clock covers less than a period).
NoFloatingChat ==
    [chatHistory |-> <<>>, currentChatId |-> NULL, allChats |-> <<>>, aliased |-> FALSE,
     lastUpdateTimestamp |-> 0, changes |-> <<>>, timeout |-> 0, pc |-> "idle", sent |-> 0,
     fired |-> FALSE]

NoFloatingChats == [tab \in ChatTabs |-> NoFloatingChat]

NoCalendar ==
    [pc |-> "idle", dateTime |-> <<>>, today |-> NoDate, parsed |-> NoParse,
     date |-> <<>>, start |-> <<>>, end |-> <<>>, log |-> <<>>]


\* ------------------------------------------------------------------ Init
\* What a scripted sequence did: the first step of it that failed without a
\* fallback that worked (unrecovered), and whether its confirming keystroke
\* was sent (confirmed).
NoScript == [unrecovered |-> NULL, confirmed |-> FALSE]

\* The record of one POST /invoke.  prompt is the request's prompt until the
\* executor has taken its first step; session is the context the running
\* browser tool launched or found.
IdleTurn ==
    [pc |-> "idle", tool |-> NULL, requestId |-> NULL, wakeAt |-> 0, attempts |-> 0,
     iterations |-> 0, steps |-> <<>>, output |-> <<>>,
     resOutput |-> <<>>, resSteps |-> <<>>, response |-> NULL,
     session |-> NULL, script |-> NoScript, prompt |-> <<>>]

Init ==
    /\ now = StartMs
    /\ pendingTabRequests = <<>>
    /\ createdBy = [i \in {} |-> 0]
    /\ browserContext = NULL
    /\ page = NULL
    /\ contexts = <<>>
    /\ hasStoredSession \in BOOLEAN
    /\ turns = [t \in Turns |-> IdleTurn]
    /\ tabPollingInterval = 0
    /\ lastScreenshotTime = 0
    /\ passes = <<>>
    /\ calendar = NoCalendar
    /\ timers = 0
    /\ storage = NoStorage
    /\ floatingChats = NoFloatingChats

\* ----------------------------------------------------------------- clock
\* Time passes: by one millisecond or by one timer period.
Advance(d, horizon) ==
    /\ now + d <= horizon
    /\ d = 1 => (now % PollIntervalMs) < MaxJitter
    /\ now' = now + d
    /\ UNCHANGED <<timers, storage, floatingChats,
                   pendingTabRequests, createdBy, browserContext, page, contexts,
                   hasStoredSession, calendar, turns, tabPollingInterval, lastScreenshotTime,
                   passes>>

\* --------------------------------------------------------------- browser
\* The id of the context that the i-th launchPersistentContext call returns.
CtxId(i) == ToString(i)

\* The context of id c is open.
IsOpen(c) == \E i \in 1..Len(contexts) : CtxId(i) = c /\ contexts[i] = "open"

\* contexts, with the context of id c in state st
WithContext(c, st) ==
    [i \in 1..Len(contexts) |-> IF CtxId(i) = c THEN st ELSE contexts[i]]

\* closeBrowser(): closes the context the variable holds, if any, and clears
\* the two variables; an error of close() is caught and logged, and then the
\* two variables keep their values.
CloseBrowserOutcomes ==
    IF browserContext = NULL
    THEN {[ctx |-> browserContext, pg |-> page, all |-> contexts]}
    ELSE {[ctx |-> NULL, pg |-> NULL, all |-> WithContext(browserContext, "closed")],
          [ctx |-> browserContext, pg |-> page, all |-> contexts]}

\* page.isClosed(): the page was closed, or its context is gone.
PageIsClosed == page = "closed" \/ ~IsOpen(page)

\* ensureBrowserOpen() up to initializeBrowser().  `!browserContext.isConnected?.()`
\* is true when the context is gone and also when the context object of the
\* playwright package has no isConnected method (hasMethod = FALSE); the two
\* variables are then cleared without a close().  A page that is closed is
\* dropped.  A page that does not answer evaluate() is replaced by a new page
\* of the same context, which leaves the variables' model values as they are.
EnsureDrops(hasMethod) ==
    browserContext # NULL /\ (~hasMethod \/ ~IsOpen(browserContext))

EnsureContext(hasMethod) == IF EnsureDrops(hasMethod) THEN NULL ELSE browserContext

EnsurePage(hasMethod) ==
    IF EnsureDrops(hasMethod) THEN NULL
    ELSE IF page # NULL /\ PageIsClosed THEN NULL ELSE page

NeedsLaunch(hasMethod) ==
    EnsureContext(hasMethod) = NULL \/ EnsurePage(hasMethod) = NULL

\* initializeBrowser() calls launchPersistentContext: one more context, not yet
\* assigned to the variable.
Launching == Append(contexts, "launching")

\* A page of the session is closed from outside (the user closes the tab).
PageCloses ==
    /\ page # NULL
    /\ page # "closed"
    /\ IsOpen(page)
    /\ page' = "closed"
    /\ UNCHANGED <<timers, storage, floatingChats,
                   now, pendingTabRequests, createdBy, browserContext, contexts,
                   hasStoredSession, calendar, turns, tabPollingInterval, lastScreenshotTime,
                   passes>>

\* ------------------------------------------------------- agent executor
CanInvoke_OffByOne(t) ==
    /\ turns[t].pc = "deciding"
    /\ turns[t].iterations <= maxIterations

CanInvoke(t) ==
    /\ turns[t].pc = "deciding"
    /\ turns[t].iterations < maxIterations

\* The executor records the step of the tool that returned and loops.
Returned(t, obs) ==
    [turns EXCEPT ![t] =
        [@ EXCEPT !.pc = "deciding", !.tool = NULL, !.requestId = NULL, !.wakeAt = 0,
                  !.attempts = 0, !.session = NULL, !.prompt = <<>>,
                  !.iterations = @ + 1,
                  !.steps = Append(@, [tool |-> turns[t].tool, observation |-> obs])]]

\* A tool raised msg.  What the executor of the langchain package does with it
\* is not fixed by this repository: either the failure becomes the step's
\* observation and the loop goes on, or it leaves agent.call as a rejection.
Raised(t, tool, msg, caught) ==
    IF caught
    THEN [turns EXCEPT ![t] =
            [@ EXCEPT !.pc = "deciding", !.tool = NULL, !.requestId = NULL,
                      !.wakeAt = 0, !.attempts = 0, !.session = NULL,
                      !.prompt = <<>>, !.iterations = @ + 1,
                      !.steps = Append(@, [tool |-> tool, observation |-> msg])]]
    ELSE [turns EXCEPT ![t] =
            [@ EXCEPT !.pc = "failed", !.tool = NULL, !.requestId = NULL,
                      !.wakeAt = 0, !.attempts = 0, !.session = NULL,
                      !.prompt = <<>>]]

Started(t, tool, id, wake) ==
    [turns EXCEPT ![t] =
        [@ EXCEPT !.pc = "tool", !.tool = tool, !.requestId = id, !.wakeAt = wake,
                  !.script = NoScript, !.prompt = <<>>]]

Owner(id, t) ==
    [i \in (DOMAIN createdBy) \cup {id} |-> IF i = id THEN t ELSE createdBy[i]]

Disowned(id) == [i \in (DOMAIN createdBy) \ {id} |-> createdBy[i]]

\* ----------------------------------------------------------------- tools
\* open_new_tab up to its await: no URL resolved -> raises; else the entry is
\* set under Date.now().toString() and the tool sleeps 1000 ms.
OpenNewTabCall(t, hasUrl, caught) ==
    /\ CanInvoke(t)
    /\ IF hasUrl
       THEN /\ pendingTabRequests' =
                   MapSet(pendingTabRequests, RequestId(now), TabRecord(TabUrl))
            /\ createdBy' = Owner(RequestId(now), t)
            /\ turns' = Started(t, "open_new_tab", RequestId(now), now + TabWaitMs)
       ELSE /\ turns' = Raised(t, "open_new_tab", NoTargetMsg, caught)
            /\ UNCHANGED <<timers, storage, floatingChats,
                           pendingTabRequests, createdBy>>
    /\ UNCHANGED <<timers, storage, floatingChats,
                   now, browserContext, page, contexts, hasStoredSession, calendar, tabPollingInterval,
                   lastScreenshotTime, passes>>

\* open_new_tab after the sleep: one look at its entry.
OpenNewTabResume(t) ==
    /\ turns[t].pc = "tool"
    /\ turns[t].tool = "open_new_tab"
    /\ now >= turns[t].wakeAt
    /\ LET id == turns[t].requestId
           seen == /\ MapHas(pendingTabRequests, id)
                   /\ MapGet(pendingTabRequests, id).status = "completed"
       IN IF seen
          THEN /\ pendingTabRequests' = MapDelete(pendingTabRequests, id)
               /\ createdBy' = Disowned(id)
               /\ turns' = Returned(t, OpenedObserved)
          ELSE /\ turns' = Returned(t, OpenedRequested)
               /\ UNCHANGED <<timers, storage, floatingChats,
                              pendingTabRequests, createdBy>>
    /\ UNCHANGED <<timers, storage, floatingChats,
                   now, browserContext, page, contexts, hasStoredSession, calendar, tabPollingInterval,
                   lastScreenshotTime, passes>>

NavigateBrowserCall(t) ==
    /\ CanInvoke(t)
    /\ pendingTabRequests' = MapSet(pendingTabRequests, RequestId(now), TabRecord(TabUrl))
    /\ createdBy' = Owner(RequestId(now), t)
    /\ turns' = Started(t, "navigate_browser", RequestId(now), now + TabWaitMs)
    /\ UNCHANGED <<timers, storage, floatingChats,
                   now, browserContext, page, contexts, hasStoredSession, calendar, tabPollingInterval,
                   lastScreenshotTime, passes>>

NavigateBrowserResume(t) ==
    /\ turns[t].pc = "tool"
    /\ turns[t].tool = "navigate_browser"
    /\ now >= turns[t].wakeAt
    /\ LET id == turns[t].requestId
           seen == /\ MapHas(pendingTabRequests, id)
                   /\ MapGet(pendingTabRequests, id).status = "completed"
       IN IF seen
          THEN /\ pendingTabRequests' = MapDelete(pendingTabRequests, id)
               /\ createdBy' = Disowned(id)
               /\ turns' = Returned(t, NavigatedObserved)
          ELSE /\ turns' = Returned(t, NavigatedRequested)
               /\ UNCHANGED <<timers, storage, floatingChats,
                              pendingTabRequests, createdBy>>
    /\ UNCHANGED <<timers, storage, floatingChats,
                   now, browserContext, page, contexts, hasStoredSession, calendar, tabPollingInterval,
                   lastScreenshotTime, passes>>

\* take_screenshot up to the first await of its loop.
TakeScreenshotCall(t) ==
    /\ CanInvoke(t)
    /\ pendingTabRequests' = MapSet(pendingTabRequests, RequestId(now), ShotRecord)
    /\ createdBy' = Owner(RequestId(now), t)
    /\ turns' = Started(t, "take_screenshot", RequestId(now), now + ShotPollMs)
    /\ UNCHANGED <<timers, storage, floatingChats,
                   now, browserContext, page, contexts, hasStoredSession, calendar, tabPollingInterval,
                   lastScreenshotTime, passes>>

\* One iteration of take_screenshot's loop after its 500 ms sleep, and, when
\* the loop ends, the timeout path; every raise passes through the tool's catch.
TakeScreenshotPoll(t, caught) ==
    /\ turns[t].pc = "tool"
    /\ turns[t].tool = "take_screenshot"
    /\ now >= turns[t].wakeAt
    /\ LET id == turns[t].requestId
           seen == /\ MapHas(pendingTabRequests, id)
                   /\ MapGet(pendingTabRequests, id).status = "completed"
           request == MapGet(pendingTabRequests, id)
       IN IF seen
          THEN /\ pendingTabRequests' = MapDelete(pendingTabRequests, id)
               /\ createdBy' = Disowned(id)
               /\ turns' =
                    IF request.error # <<>>
                    THEN Raised(t, "take_screenshot", ShotFailed(request.error), caught)
                    ELSE IF request.success /\ request.filename # NULL
                         THEN Returned(t, ShotSaved(request.filename))
                         ELSE Returned(t, ShotTaken)
          ELSE IF turns[t].attempts + 1 < maxAttempts
               THEN /\ turns' = [turns EXCEPT ![t].attempts = @ + 1,
                                              ![t].wakeAt = now + ShotPollMs]
                    /\ UNCHANGED <<timers, storage, floatingChats,
                                   pendingTabRequests, createdBy>>
               ELSE /\ pendingTabRequests' = MapDelete(pendingTabRequests, id)
                    /\ createdBy' = Disowned(id)
                    /\ turns' = Raised(t, "take_screenshot",
                                       ShotFailed(ShotTimeoutMsg), caught)
    /\ UNCHANGED <<timers, storage, floatingChats,
                   now, browserContext, page, contexts, hasStoredSession, calendar, tabPollingInterval,
                   lastScreenshotTime, passes>>

WaitCall(t) ==
    /\ CanInvoke(t)
    /\ turns' = Started(t, "wait", NULL, now + WaitToolMs)
    /\ UNCHANGED <<timers, storage, floatingChats,
                   now, pendingTabRequests, createdBy, browserContext, page, contexts,
                   hasStoredSession, calendar, tabPollingInterval, lastScreenshotTime, passes>>

WaitResume(t) ==
    /\ turns[t].pc = "tool"
    /\ turns[t].tool = "wait"
    /\ now >= turns[t].wakeAt
    /\ turns' = Returned(t, Waited)
    /\ UNCHANGED <<timers, storage, floatingChats,
                   now, pendingTabRequests, createdBy, browserContext, page, contexts,
                   hasStoredSession, calendar, tabPollingInterval, lastScreenshotTime, passes>>

\* ------------------------------------- create_calendar_event, send_email
Scripted == {"create_calendar_event", "send_email"}

CtxIndex(c) == CHOOSE i \in 1..Len(contexts) : CtxId(i) = c

\* Turn t is inside ensureBrowserOpen(), awaiting the launch it asked for.
InLaunch(t) ==
    /\ turns[t].pc = "tool"
    /\ turns[t].tool \in Scripted
    /\ turns[t].session # NULL
    /\ contexts[CtxIndex(turns[t].session)] = "launching"

\* Turn t is past ensureBrowserOpen(), inside the scripted sequence.
InScript(t) ==
    /\ turns[t].pc = "tool"
    /\ turns[t].tool \in Scripted
    /\ ~InLaunch(t)

\* create_calendar_event and send_email begin with ensureBrowserOpen(): the
\* checks of the two variables and, when the context or the page is missing,
\* the call of launchPersistentContext, which is awaited.
ScriptedToolCall(t, tool, hasMethod) ==
    /\ CanInvoke(t)
    /\ browserContext' = EnsureContext(hasMethod)
    /\ page' = EnsurePage(hasMethod)
    /\ IF NeedsLaunch(hasMethod)
       THEN /\ contexts' = Launching
            /\ turns' = [Started(t, tool, NULL, 0) EXCEPT
                            ![t].session = CtxId(Len(contexts) + 1)]
       ELSE /\ contexts' = contexts
            /\ turns' = [Started(t, tool, NULL, 0) EXCEPT ![t].session = browserContext]
    /\ UNCHANGED <<timers, storage, floatingChats,
                   now, pendingTabRequests, createdBy, hasStoredSession, calendar,
                   tabPollingInterval, lastScreenshotTime, passes>>

\* launchPersistentContext settles.  Resolved: initializeBrowser() assigns the
\* context and its first page to the two variables, and the tool goes on to
\* its sequence; Chrome writes the profile directory some time after the
\* launch, so it may or may not be on disk when a caller looks (stored).
\* Rejected in the try of ensureBrowserOpen(): its catch clears the two
\* variables and calls initializeBrowser() once more.  Rejected there: the
\* error leaves ensureBrowserOpen() and the tool, which has not entered its
\* own try yet.
LaunchEnd(t, ok, stored, caught) ==
    /\ InLaunch(t)
    /\ stored \in {hasStoredSession, TRUE}
    /\ IF ok
       THEN /\ contexts' = WithContext(turns[t].session, "open")
            /\ browserContext' = turns[t].session
            /\ page' = turns[t].session
            /\ hasStoredSession' = stored
            /\ turns' = [turns EXCEPT ![t].attempts = @ + 1]
       ELSE IF turns[t].attempts = 0
       THEN /\ contexts' = Append(WithContext(turns[t].session, "failed"), "launching")
            /\ browserContext' = NULL
            /\ page' = NULL
            /\ hasStoredSession' = hasStoredSession
            /\ turns' = [turns EXCEPT ![t].attempts = @ + 1,
                                      ![t].session = CtxId(Len(contexts) + 1)]
       ELSE /\ contexts' = WithContext(turns[t].session, "failed")
            /\ UNCHANGED <<timers, storage, floatingChats,
                           browserContext, page, hasStoredSession>>
            /\ turns' = Raised(t, turns[t].tool, LaunchFailedMsg, caught)
    /\ UNCHANGED <<timers, storage, floatingChats,
                   now, pendingTabRequests, createdBy, tabPollingInterval,
                   lastScreenshotTime, passes, calendar>>

\* The page the sequence drives is the one the variable holds.
PageUsable == page # NULL /\ page # "closed" /\ IsOpen(page)

\* The step of a scripted sequence that raises, if any.  The click on Create
\* and the click on Compose have the key "c" as fallback (createClick,
\* composeClick: the fallback works; createBoth, composeBoth: it raises too).
\* The click on the Event menu item is in a try whose catch only logs.
CalendarFailures == {"none", "goto", "createClick", "createBoth", "event", "fill", "enter"}

EmailFailures == {"none", "goto", "composeClick", "composeBoth", "fill", "send"}

\* The failures after which the sequence goes on to its next step.
GoesOn == {"none", "createClick", "event", "composeClick"}

ScriptOf(failing) ==
    [unrecovered |-> IF failing \in {"none", "createClick", "composeClick"}
                     THEN NULL ELSE failing,
     confirmed |-> failing \in GoesOn]

\* The scripted sequence of create_calendar_event ran to its end or a step of
\* it raised into the catch; both paths call closeBrowser() before leaving.
CreateCalendarEventEnd(t, failing, closed, caught) ==
    /\ InScript(t)
    /\ turns[t].tool = "create_calendar_event"
    /\ failing \in CalendarFailures
    /\ ~PageUsable => failing = "goto"
    /\ closed \in CloseBrowserOutcomes
    /\ browserContext' = closed.ctx
    /\ page' = closed.pg
    /\ contexts' = closed.all
    /\ turns' = [ (IF failing \in GoesOn THEN Returned(t, EventCreated)
                   ELSE Raised(t, "create_calendar_event", ScriptFailedMsg, caught))
                  EXCEPT ![t].script = ScriptOf(failing) ]
    /\ UNCHANGED <<timers, storage, floatingChats,
                   now, pendingTabRequests, createdBy, hasStoredSession, calendar,
                   tabPollingInterval, lastScreenshotTime, passes>>

\* send_email: raises before its first step when no profile is stored, else as
\* above.
SendEmailEnd(t, failing, closed, caught) ==
    /\ InScript(t)
    /\ turns[t].tool = "send_email"
    /\ failing \in EmailFailures
    /\ ~hasStoredSession => failing = "none"
    /\ (hasStoredSession /\ ~PageUsable) => failing = "goto"
    /\ closed \in CloseBrowserOutcomes
    /\ browserContext' = closed.ctx
    /\ page' = closed.pg
    /\ contexts' = closed.all
    /\ turns' = IF ~hasStoredSession
                THEN Raised(t, "send_email", EmailFailed(NotLoggedInMsg), caught)
                ELSE [ (IF failing \in GoesOn THEN Returned(t, EmailSent)
                        ELSE Raised(t, "send_email", EmailFailed(ScriptFailedMsg), caught))
                       EXCEPT ![t].script = ScriptOf(failing) ]
    /\ UNCHANGED <<timers, storage, floatingChats,
                   now, pendingTabRequests, createdBy, hasStoredSession, calendar,
                   tabPollingInterval, lastScreenshotTime, passes>>

\* -------------------------------------------------- agent.call and /invoke
SuccessMarkers ==
    { <<"Task", "completed", "successfully">>, <<"Successfully", "opened">>,
      <<"Successfully", "created">>, <<"Successfully", "sent">> }

IsSuccess(observation) ==
    /\ observation # <<>>
    /\ \E m \in SuccessMarkers : Includes(observation, m)

SuccessIndexes(steps) == {i \in 1..Len(steps) : IsSuccess(steps[i].observation)}

FirstSuccessIndex(steps) ==
    CHOOSE i \in SuccessIndexes(steps) : \A j \in SuccessIndexes(steps) : i <= j

\* The wrapper around agent.call, applied to what the executor returned.
WrapStepsOf(steps) ==
    IF SuccessIndexes(steps) # {}
    THEN SubSeq(steps, 1, FirstSuccessIndex(steps))
    ELSE steps

WrapOutputOf_LastSuccess(output, steps) ==
    IF SuccessIndexes(steps) # {}
    THEN steps[CHOOSE i \in SuccessIndexes(steps) :
                  \A j \in SuccessIndexes(steps) : j <= i].observation
    ELSE output

WrapOutputOf_NoFallback(output, steps) ==
    IF SuccessIndexes(steps) # {}
    THEN steps[FirstSuccessIndex(steps)].observation
    ELSE output

WrapOutputOf(output, steps) ==
    LET afterSuccess == IF SuccessIndexes(steps) # {}
                        THEN steps[FirstSuccessIndex(steps)].observation
                        ELSE output
        kept == WrapStepsOf(steps)
    IN IF /\ afterSuccess # <<>>
          /\ Includes(afterSuccess, <<"Agent stopped due to max iterations">>)
          /\ Len(kept) > 0
          /\ kept[Len(kept)].observation # <<>>
          /\ Includes(kept[Len(kept)].observation, <<"Task", "completed">>)
       THEN kept[Len(kept)].observation
       ELSE afterSuccess

Wrapped(t, output) ==
    [turns EXCEPT ![t] =
        [@ EXCEPT !.pc = "wrapped", !.output = output, !.script = NoScript,
                  !.prompt = <<>>,
                  !.resOutput = WrapOutputOf(output, turns[t].steps),
                  !.resSteps = WrapStepsOf(turns[t].steps)]]

LowerCase(tok) ==
    CASE tok = "Calendar" -> "calendar"
      [] tok = "Event" -> "event"
      [] tok = "Open" -> "open"
      [] OTHER -> tok

ToLowerCase_Identity(str) == str

ToLowerCase(str) == [i \in 1..Len(str) |-> LowerCase(str[i])]

Prompts ==
    { <<>>, <<"Open", "sheets">>, <<"add", "to", "my", "Calendar">>,
      <<"send", "email">> }

\* POST /invoke up to agent.call: 400 without a prompt, the needsLogin answer
\* for a calendar prompt without stored profile, else the executor starts.
InvokeReceive(t, prompt) ==
    /\ turns[t].pc = "idle"
    /\ \A u \in Turns : u < t => turns[u].pc # "idle"
    /\ turns' =
         IF prompt = <<>>
         THEN [turns EXCEPT ![t].pc = "responded", ![t].response = "400",
                            ![t].prompt = prompt]
         ELSE IF /\ \/ Includes(ToLowerCase(prompt), <<"calendar">>)
                    \/ Includes(ToLowerCase(prompt), <<"event">>)
                 /\ ~hasStoredSession
              THEN [turns EXCEPT ![t].pc = "responded", ![t].response = "needsLogin",
                                 ![t].prompt = prompt]
              ELSE [turns EXCEPT ![t].pc = "deciding", ![t].prompt = prompt]
    /\ UNCHANGED <<timers, storage, floatingChats,
                   now, pendingTabRequests, createdBy, browserContext, page, contexts,
                   hasStoredSession, calendar, tabPollingInterval, lastScreenshotTime, passes>>

\* The model answers with a Final Answer: the executor returns, the wrapper runs.
AgentFinish(t) ==
    /\ CanInvoke(t)
    /\ turns' = Wrapped(t, FinalAnswerText)
    /\ UNCHANGED <<timers, storage, floatingChats,
                   now, pendingTabRequests, createdBy, browserContext, page, contexts,
                   hasStoredSession, calendar, tabPollingInterval, lastScreenshotTime, passes>>

\* maxIterations reached, earlyStoppingMethod "force".
AgentForceStop(t) ==
    /\ turns[t].pc = "deciding"
    /\ turns[t].iterations >= maxIterations
    /\ turns' = Wrapped(t, MaxIterMsg)
    /\ UNCHANGED <<timers, storage, floatingChats,
                   now, pendingTabRequests, createdBy, browserContext, page, contexts,
                   hasStoredSession, calendar, tabPollingInterval, lastScreenshotTime, passes>>

\* The rest of POST /invoke after agent.call returned: closeBrowser(), res.json.
InvokeRespond(t, closed) ==
    /\ turns[t].pc = "wrapped"
    /\ closed \in CloseBrowserOutcomes
    /\ browserContext' = closed.ctx
    /\ page' = closed.pg
    /\ contexts' = closed.all
    /\ turns' = [turns EXCEPT ![t].pc = "responded", ![t].response = "200"]
    /\ UNCHANGED <<timers, storage, floatingChats,
                   now, pendingTabRequests, createdBy, hasStoredSession, calendar,
                   tabPollingInterval, lastScreenshotTime, passes>>

\* The catch of POST /invoke: closeBrowser(), 500 "Failed to execute agent".
InvokeCatch(t, closed) ==
    /\ turns[t].pc = "failed"
    /\ closed \in CloseBrowserOutcomes
    /\ browserContext' = closed.ctx
    /\ page' = closed.pg
    /\ contexts' = closed.all
    /\ turns' = [turns EXCEPT ![t].pc = "responded", ![t].response = "500"]
    /\ UNCHANGED <<timers, storage, floatingChats,
                   now, pendingTabRequests, createdBy, hasStoredSession, calendar,
                   tabPollingInterval, lastScreenshotTime, passes>>

\* ------------------------------------------- service worker: the poller
\* startTabRequestPolling() up to its setInterval call, which is reached
\* without an await: a timer is created unless the handle is set.  The result
\* is the handle (as the time the timer is due next) and the live timers.
startTabRequestPolling_NoGuard(interval, live) ==
    [interval |-> now + PollIntervalMs, timers |-> live + 1]

startTabRequestPolling(interval, live) ==
    IF interval # 0
    THEN [interval |-> interval, timers |-> live]
    ELSE [interval |-> now + PollIntervalMs, timers |-> live + 1]

\* stopTabRequestPolling(): clearInterval on the handle, if one is set.
stopTabRequestPolling(interval, live) ==
    IF interval # 0
    THEN [interval |-> 0, timers |-> live - 1]
    ELSE [interval |-> interval, timers |-> live]

\* checkHelperService() from the answer of its GET /health on: "healthy"
\* starts the polling, any other answer or a rejected fetch stops it.  Nothing
\* is written before the await, so overlapping checks are these steps in the
\* order in which their answers arrive.
CheckHelperService(reachable) ==
    /\ LET r == IF reachable
                THEN startTabRequestPolling(tabPollingInterval, timers)
                ELSE stopTabRequestPolling(tabPollingInterval, timers)
       IN /\ tabPollingInterval' = r.interval
          /\ timers' = r.timers
    /\ UNCHANGED <<storage, floatingChats,
                   now, pendingTabRequests, createdBy, browserContext, page, contexts,
                   hasStoredSession, calendar, turns, lastScreenshotTime, passes>>

\* chrome.runtime.onSuspend
OnSuspend ==
    /\ tabPollingInterval # 0
    /\ LET r == stopTabRequestPolling(tabPollingInterval, timers)
       IN /\ tabPollingInterval' = r.interval
          /\ timers' = r.timers
    /\ UNCHANGED <<storage, floatingChats,
                   now, pendingTabRequests, createdBy, browserContext, page, contexts,
                   hasStoredSession, calendar, turns, lastScreenshotTime, passes>>

NoBody == [success |-> FALSE, filename |-> NULL, downloadId |-> 0, error |-> <<>>,
           dataUrl |-> NULL]

\* status: the HTTP status of the answer the callback is resuming from (0: none)
NewPass == [stage |-> "get", snapshot |-> <<>>, idx |-> 0, body |-> NoBody, status |-> 0]

RemoveAt(seq, p) ==
    [j \in 1..(Len(seq) - 1) |-> IF j < p THEN seq[j] ELSE seq[j + 1]]

\* The interval timer fires: its async callback starts with the GET, whether
\* or not an earlier callback is still running.
IntervalFire(limit) ==
    /\ tabPollingInterval # 0
    /\ now >= tabPollingInterval
    /\ Len(passes) < limit
    /\ passes' = Append(passes, NewPass)
    /\ tabPollingInterval' = now + PollIntervalMs
    /\ UNCHANGED <<timers, storage, floatingChats,
                   now, pendingTabRequests, createdBy, browserContext, page, contexts,
                   hasStoredSession, calendar, turns, lastScreenshotTime>>

\* GET /tab-requests: every entry of the Map, whatever its status.
GetTabRequests(p) ==
    /\ p \in 1..Len(passes)
    /\ passes[p].stage = "get"
    /\ passes' = [passes EXCEPT ![p].stage = "loop", ![p].idx = 1,
                                ![p].snapshot = pendingTabRequests]
    /\ UNCHANGED <<timers, storage, floatingChats,
                   now, pendingTabRequests, createdBy, browserContext, page, contexts,
                   hasStoredSession, calendar, turns, tabPollingInterval, lastScreenshotTime>>

\* A fetch of the callback is rejected (helper unreachable).  Outside the
\* screenshot try block this ends the callback in its outer catch; inside it,
\* the inner catch posts the error.
FetchFails(p) ==
    /\ p \in 1..Len(passes)
    /\ passes[p].stage \in {"get", "post", "postOk", "postErr"}
    /\ passes' =
         IF passes[p].stage = "postOk"
         THEN [passes EXCEPT ![p].stage = "postErr",
                             ![p].body = [NoBody EXCEPT !.error = <<"Failed to fetch">>]]
         ELSE RemoveAt(passes, p)
    /\ UNCHANGED <<timers, storage, floatingChats,
                   now, pendingTabRequests, createdBy, browserContext, page, contexts,
                   hasStoredSession, calendar, turns, tabPollingInterval, lastScreenshotTime>>

NextPending(snapshot, from) ==
    {i \in from..Len(snapshot) : snapshot[i].data.status = "pending"}

FirstOf(S) == CHOOSE i \in S : \A j \in S : i <= j

\* The for loop of the callback from entry idx up to its next await: entries
\* that are not pending are skipped; a screenshot entry passes the rate limit
\* (and sets lastScreenshotTime) or raises; the loop's end ends the callback.
PassDispatch(p) ==
    /\ p \in 1..Len(passes)
    /\ passes[p].stage = "loop"
    /\ LET todo == NextPending(passes[p].snapshot, passes[p].idx)
           i == FirstOf(todo)
           request == passes[p].snapshot[i].data
       IN IF todo = {}
          THEN /\ passes' = RemoveAt(passes, p)
               /\ UNCHANGED lastScreenshotTime
          ELSE IF request.action = "screenshot"
               THEN IF lastScreenshotTime # 0 /\ (now - lastScreenshotTime) < RateLimitMs
                    THEN /\ passes' = [passes EXCEPT ![p].idx = i, ![p].stage = "postErr",
                                         ![p].status = 0,
                                         ![p].body = [NoBody EXCEPT !.error = RateLimitMsg]]
                         /\ UNCHANGED lastScreenshotTime
                    ELSE /\ passes' = [passes EXCEPT ![p].idx = i, ![p].stage = "capture",
                                                       ![p].status = 0]
                         /\ lastScreenshotTime' = now
               ELSE /\ passes' = [passes EXCEPT ![p].idx = i, ![p].stage = "create",
                                                  ![p].status = 0]
                    /\ UNCHANGED lastScreenshotTime
    /\ UNCHANGED <<timers, storage, floatingChats,
                   now, pendingTabRequests, createdBy, browserContext, page, contexts,
                   hasStoredSession, calendar, turns, tabPollingInterval>>

\* chrome.tabs.create resolves (the POST follows) or rejects (outer catch).
PassCreateTab(p, ok) ==
    /\ p \in 1..Len(passes)
    /\ passes[p].stage = "create"
    /\ passes' = IF ok THEN [passes EXCEPT ![p].stage = "post", ![p].body = NoBody]
                 ELSE RemoveAt(passes, p)
    /\ UNCHANGED <<timers, storage, floatingChats,
                   now, pendingTabRequests, createdBy, browserContext, page, contexts,
                   hasStoredSession, calendar, turns, tabPollingInterval, lastScreenshotTime>>

ShotFilename(t) == "screenshot-" \o ToString(t \div 1000) \o ".png"

\* captureVisibleTab and downloads.download resolve, or one of them rejects.
PassCapture(p, ok) ==
    /\ p \in 1..Len(passes)
    /\ passes[p].stage = "capture"
    /\ passes' =
         IF ok
         THEN [passes EXCEPT ![p].stage = "postOk",
                             ![p].body = [NoBody EXCEPT !.success = TRUE,
                                                        !.filename = ShotFilename(now),
                                                        !.downloadId = 1]]
         ELSE [passes EXCEPT ![p].stage = "postErr",
                             ![p].body = [NoBody EXCEPT !.error = CaptureFailedMsg]]
    /\ UNCHANGED <<timers, storage, floatingChats,
                   now, pendingTabRequests, createdBy, browserContext, page, contexts,
                   hasStoredSession, calendar, turns, tabPollingInterval, lastScreenshotTime>>

Completed_Upsert(m, id, body) ==
    MapSet(m, id, [TabRecord(NULL) EXCEPT !.status = "completed"])

\* POST /tab-requests/:id/complete applied to the Map.
Completed(m, id, body) ==
    IF MapHas(m, id)
    THEN LET r0 == MapGet(m, id)
             r1 == [r0 EXCEPT !.status = "completed"]
             r2 == IF body.dataUrl # NULL THEN [r1 EXCEPT !.dataUrl = body.dataUrl] ELSE r1
             r3 == IF body.success /\ body.filename # NULL
                   THEN [r2 EXCEPT !.success = TRUE, !.filename = body.filename,
                                   !.downloadId = body.downloadId]
                   ELSE r2
             r4 == IF body.error # <<>> THEN [r3 EXCEPT !.error = body.error] ELSE r3
         IN MapSet(m, id, r4)
    ELSE m

CompleteStatus(m, id) == IF MapHas(m, id) THEN 200 ELSE 404

\* The callback's POST reaches the handler and its answer resumes the loop.
CompleteTabRequest(p) ==
    /\ p \in 1..Len(passes)
    /\ passes[p].stage \in {"post", "postOk", "postErr"}
    /\ LET id == passes[p].snapshot[passes[p].idx].id
       IN /\ pendingTabRequests' = Completed(pendingTabRequests, id, passes[p].body)
          /\ passes' = [passes EXCEPT ![p].stage = "loop", ![p].idx = @ + 1,
                                      ![p].body = NoBody,
                                      ![p].status = CompleteStatus(pendingTabRequests, id)]
    /\ UNCHANGED <<timers, storage, floatingChats,
                   now, createdBy, browserContext, page, contexts, hasStoredSession, calendar, turns,
                   tabPollingInterval, lastScreenshotTime>>

\* ------------------------------------------------------------------ Next
Tick(horizon) == \E d \in {1, PollIntervalMs} : Advance(d, horizon)

\* The poller's steps other than the timer.
PassStep ==
    \/ \E reachable \in BOOLEAN : CheckHelperService(reachable)
    \/ OnSuspend
    \/ \E p \in 1..MaxPasses : GetTabRequests(p)
    \/ \E p \in 1..MaxPasses : FetchFails(p)
    \/ \E p \in 1..MaxPasses : PassDispatch(p)
    \/ \E p \in 1..MaxPasses, ok \in BOOLEAN : PassCreateTab(p, ok)
    \/ \E p \in 1..MaxPasses, ok \in BOOLEAN : PassCapture(p, ok)
    \/ \E p \in 1..MaxPasses : CompleteTabRequest(p)

\* The tools that go through the relay table.
RelayToolStep(t) ==
    \/ \E hasUrl \in BOOLEAN, caught \in BOOLEAN : OpenNewTabCall(t, hasUrl, caught)
    \/ OpenNewTabResume(t)
    \/ NavigateBrowserCall(t)
    \/ NavigateBrowserResume(t)
    \/ TakeScreenshotCall(t)
    \/ \E caught \in BOOLEAN : TakeScreenshotPoll(t, caught)

\* The tools that drive the browser.
ScriptedToolStep(t) ==
    \/ \E tool \in Scripted, hasMethod \in BOOLEAN : ScriptedToolCall(t, tool, hasMethod)
    \/ \E ok \in BOOLEAN, stored \in BOOLEAN, caught \in BOOLEAN :
          LaunchEnd(t, ok, stored, caught)
    \/ \E failing \in CalendarFailures, closed \in CloseBrowserOutcomes,
          caught \in BOOLEAN : CreateCalendarEventEnd(t, failing, closed, caught)
    \/ \E failing \in EmailFailures, closed \in CloseBrowserOutcomes,
          caught \in BOOLEAN : SendEmailEnd(t, failing, closed, caught)

\* The tools that do not go through the relay table.
OtherToolStep(t) ==
    \/ WaitCall(t)
    \/ WaitResume(t)
    \/ ScriptedToolStep(t)

InvokeStep(t) ==
    \/ \E prompt \in Prompts : InvokeReceive(t, prompt)
    \/ AgentFinish(t)
    \/ \E closed \in CloseBrowserOutcomes : InvokeRespond(t, closed)
    \/ \E closed \in CloseBrowserOutcomes : InvokeCatch(t, closed)

\* One POST /invoke with every tool; the poller's callbacks do not overlap.
Next ==
    \/ Tick(MaxNow)
    \/ InvokeStep(1)
    \/ AgentForceStop(1)
    \/ RelayToolStep(1)
    \/ OtherToolStep(1)
    \/ IntervalFire(OnePass)
    \/ PassStep

Spec == Init /\ [][Next]_vars

\* A turn in which the model asks for at most CallsPerTurn relay tool calls.
HasBudget(t) == turns[t].iterations < CallsPerTurn

FewCallsStep(t) ==
    \/ \E hasUrl \in BOOLEAN, caught \in BOOLEAN :
          HasBudget(t) /\ OpenNewTabCall(t, hasUrl, caught)
    \/ OpenNewTabResume(t)
    \/ HasBudget(t) /\ NavigateBrowserCall(t)
    \/ NavigateBrowserResume(t)
    \/ HasBudget(t) /\ TakeScreenshotCall(t)
    \/ \E caught \in BOOLEAN : TakeScreenshotPoll(t, caught)

\* One such POST /invoke; the poller's callbacks may overlap.
NextRelay ==
    \/ Tick(MaxNowRelay)
    \/ InvokeStep(1)
    \/ FewCallsStep(1)
    \/ IntervalFire(MaxPasses)
    \/ PassStep

SpecRelay == Init /\ [][NextRelay]_vars

\* Concurrent such POST /invoke requests.
NextRace ==
    \/ Tick(MaxNowRace)
    \/ \E t \in Turns : InvokeStep(t)
    \/ \E t \in Turns : FewCallsStep(t)
    \/ IntervalFire(OnePass)
    \/ PassStep

SpecRace == Init /\ [][NextRace]_vars

\* Concurrent POST /invoke requests whose model asks for at most CallsPerTurn
\* tool calls, of the tools that drive the browser; a page may be closed from
\* outside.  No relay tool, no poller, no clock.
FewScriptsStep(t) ==
    \/ \E tool \in Scripted, hasMethod \in BOOLEAN :
          HasBudget(t) /\ ScriptedToolCall(t, tool, hasMethod)
    \/ \E ok \in BOOLEAN, stored \in BOOLEAN, caught \in BOOLEAN :
          LaunchEnd(t, ok, stored, caught)
    \/ \E failing \in CalendarFailures, closed \in CloseBrowserOutcomes,
          caught \in BOOLEAN : CreateCalendarEventEnd(t, failing, closed, caught)
    \/ \E failing \in EmailFailures, closed \in CloseBrowserOutcomes,
          caught \in BOOLEAN : SendEmailEnd(t, failing, closed, caught)

NextBrowser ==
    \/ \E t \in Turns : InvokeStep(t)
    \/ \E t \in Turns : FewScriptsStep(t)
    \/ PageCloses

SpecBrowser == Init /\ [][NextBrowser]_vars

\* The relay seen from take_screenshot alone: the tool's steps ...
ShotToolStep(t) ==
    \/ HasBudget(t) /\ TakeScreenshotCall(t)
    \/ \E caught \in BOOLEAN : TakeScreenshotPoll(t, caught)

\* ... and the poller's steps that handle a screenshot entry.
ShotPassStep ==
    \/ \E reachable \in BOOLEAN : CheckHelperService(reachable)
    \/ OnSuspend
    \/ \E p \in 1..MaxPasses : GetTabRequests(p)
    \/ \E p \in 1..MaxPasses : FetchFails(p)
    \/ \E p \in 1..MaxPasses : PassDispatch(p)
    \/ \E p \in 1..MaxPasses, ok \in BOOLEAN : PassCapture(p, ok)
    \/ \E p \in 1..MaxPasses : CompleteTabRequest(p)

\* One POST /invoke whose model asks for take_screenshot, followed for as long
\* as the tool runs (long enough for it to give up), the clock moving by whole
\* timer periods; the poller's callbacks do not overlap.
NextShot ==
    \/ turns[1].pc = "tool" /\ Advance(PollIntervalMs, MaxNowShot)
    \/ InvokeStep(1)
    \/ ShotToolStep(1)
    \/ IntervalFire(OnePass)
    \/ ShotPassStep

SpecShot == Init /\ [][NextShot]_vars

\* ================================================================ claims
PassId(p) == passes[p].snapshot[passes[p].idx].id

Posting(p) == passes[p].stage \in {"post", "postOk", "postErr"}

InCall(t, id) == turns[t].pc = "tool" /\ turns[t].requestId = id

\* agent.call returned a result for turn record r (the wrapper has run)
HasResult(r) == r.pc = "wrapped" \/ (r.pc = "responded" /\ r.response = "200")

\* agent.call is over for turn record r, with a result or a rejection
Ended(r) == HasResult(r) \/ r.pc = "failed" \/ (r.pc = "responded" /\ r.response = "500")

\* The terminal state of the agent loop for an ended turn record r.
TurnState(r) ==
    IF r.pc = "failed" \/ r.response = "500" THEN "error"
    ELSE IF \E i \in 1..Len(r.steps) : IsSuccess(r.steps[i].observation) THEN "success"
    ELSE IF r.output = MaxIterMsg THEN "max-iterations"
    ELSE "final-answer"

\* A bound on the steps a turn record r can still take.
Rank(r) ==
    CASE r.pc = "idle" -> (maxIterations + 1) * (maxAttempts + 2) + 3
      [] r.pc = "deciding" -> (maxIterations - r.iterations) * (maxAttempts + 2) + 3
      [] r.pc = "tool" ->
            (maxIterations - r.iterations) * (maxAttempts + 2) + 2 - r.attempts
      [] r.pc \in {"wrapped", "failed"} -> 1
      [] OTHER -> 0

\* C1: within one turn, once a step's output contains a success marker, no
\* further tool is invoked: no tool call is in progress in a turn whose
\* executor has already recorded a step with a success marker.
C1_NoToolAfterSuccess ==
    \A t \in Turns :
        turns[t].pc = "tool" => SuccessIndexes(turns[t].steps) = {}

\* C2: a complete call for a record that is already completed is rejected or
\* leaves the record as it was: it never changes the table.
C2_CompleteAtMostOnce ==
    [][\A p \in 1..Len(passes) :
          ( /\ CompleteTabRequest(p)
            /\ MapHas(pendingTabRequests, PassId(p))
            /\ MapGet(pendingTabRequests, PassId(p)).status = "completed" )
          => pendingTabRequests' = pendingTabRequests]_vars

\* C3: no entry outlives the tool call that created it: every entry of the
\* table belongs to a tool call that is still in progress.
C3_NoEntryOutlivesCall ==
    \A id \in MapIds(pendingTabRequests) : InCall(createdBy[id], id)

\* C4: two drain passes never run interleaved: at most one timer callback at
\* a time is in the middle of handling an entry.
C4_NoInterleavedPasses ==
    \A p, q \in 1..Len(passes) :
        (passes[p].stage \notin {"get", "loop"} /\ passes[q].stage \notin {"get", "loop"})
        => p = q

\* C5: any two enqueue operations obtain distinct ids: two tool calls in
\* progress never hold the same request id.
C5_DistinctIds ==
    \A t, u \in Turns :
        ( /\ t # u
          /\ turns[t].pc = "tool" /\ turns[t].requestId # NULL
          /\ turns[u].pc = "tool" /\ turns[u].requestId # NULL )
        => turns[t].requestId # turns[u].requestId

\* C6: a tool invocation removes (and takes the completion of) only the
\* request that it created itself.
C6_RemovesOnlyOwn ==
    [][\A t \in Turns :
          ( /\ turns[t].pc = "tool"
            /\ turns[t].requestId # NULL
            /\ turns'[t] # turns[t]
            /\ MapHas(pendingTabRequests, turns[t].requestId)
            /\ ~MapHas(pendingTabRequests', turns[t].requestId) )
          => createdBy[turns[t].requestId] = t]_vars

\* C7: when a step of the turn carries a success marker, the result's output
\* is the observation of the first such step and intermediateSteps stops
\* at that step.
C7_OutputIsFirstSuccess ==
    \A t \in Turns :
        HasResult(turns[t]) =>
            \A k \in 1..Len(turns[t].steps) :
                ( /\ IsSuccess(turns[t].steps[k].observation)
                  /\ \A j \in 1..(k - 1) : ~IsSuccess(turns[t].steps[j].observation) )
                => /\ turns[t].resOutput = turns[t].steps[k].observation
                   /\ Len(turns[t].resSteps) = k
                   /\ \A j \in 1..k : turns[t].resSteps[j] = turns[t].steps[j]

\* C7 witness: step 2 carries "Successfully sent" and step 1 no marker.
C7_Witness ==
    /\ turns[1].pc = "responded"
    /\ turns[1].response = "200"
    /\ Len(turns[1].steps) = 2
    /\ ~IsSuccess(turns[1].steps[1].observation)
    /\ Includes(turns[1].steps[2].observation, <<"Successfully", "sent">>)

\* C8 as stated: an ended turn is in one of success, max-iterations, error.
C8_ThreeTerminalStates ==
    \A t \in Turns :
        Ended(turns[t]) => TurnState(turns[t]) \in {"success", "max-iterations", "error"}

\* C8 amended: a turn takes at most maxIterations tool steps, invokes no tool
\* once the cap is reached, every step of it lowers Rank, and it ends in one of
\* success, max-iterations (exactly when the cap was reached without a
\* marker), error, or final-answer (the model answered before the cap).
C8_TurnIsBounded ==
    [][\A t \in Turns :
          /\ Len(turns'[t].steps) <= maxIterations
          /\ turns'[t].iterations = Len(turns'[t].steps)
          /\ Len(turns'[t].steps) > Len(turns[t].steps) => turns[t].iterations < maxIterations
          /\ turns'[t].pc = "tool" => turns[t].iterations < maxIterations
          /\ turns'[t] # turns[t] => (Rank(turns'[t]) < Rank(turns[t]) /\ Rank(turns'[t]) >= 0)
          /\ Ended(turns'[t]) =>
                /\ TurnState(turns'[t]) \in
                       {"success", "max-iterations", "error", "final-answer"}
                /\ TurnState(turns'[t]) = "max-iterations"
                       => turns'[t].iterations = maxIterations
                /\ TurnState(turns'[t]) = "final-answer"
                       => turns'[t].iterations < maxIterations]_vars

\* C8 witness: a turn that ended at the cap without a success marker.
C8_Witness ==
    /\ turns[1].pc = "responded"
    /\ Len(turns[1].steps) = maxIterations
    /\ TurnState(turns[1]) = "max-iterations"

\* C9: a completed record is observed and removed by the tool that created
\* it: a completed record is in the table only while that tool call is still
\* in progress.
C9_CompletedIsTaken ==
    \A id \in MapIds(pendingTabRequests) :
        MapGet(pendingTabRequests, id).status = "completed"
        => InCall(createdBy[id], id)

\* C10: complete with an id that is not in the table leaves the table
\* unchanged and is answered 404.
C10_UnknownIdIsNoOp ==
    [][\A p \in 1..Len(passes) :
          (CompleteTabRequest(p) /\ ~MapHas(pendingTabRequests, PassId(p)))
          => /\ pendingTabRequests' = pendingTabRequests
             /\ passes'[p].status = 404]_vars

\* C10 witness: a callback was answered 404 for an id its tool had removed.
C10_Witness ==
    \E p \in 1..Len(passes) :
        /\ passes[p].status = 404
        /\ passes[p].stage = "loop"
        /\ ~MapHas(pendingTabRequests, passes[p].snapshot[passes[p].idx - 1].id)

\* C11: for every id, the status of the record stored under it only moves
\* from pending to completed: a record that is completed is never pending
\* again in the next state.
C11_StatusOneWay ==
    [][\A id \in MapIds(pendingTabRequests) :
          ( /\ MapGet(pendingTabRequests, id).status = "completed"
            /\ MapHas(pendingTabRequests', id) )
          => MapGet(pendingTabRequests', id).status = "completed"]_vars

\* take_screenshot is running in turn t
InShot(t) == turns[t].pc = "tool" /\ turns[t].tool = "take_screenshot"

\* the observation of the step turn t has just recorded, <<>> if it recorded none
NewObservation(t) ==
    IF Len(turns'[t].steps) = Len(turns[t].steps) + 1
    THEN turns'[t].steps[Len(turns'[t].steps)].observation
    ELSE <<>>

\* the tool of turn t has just raised msg: the executor recorded it as the
\* step's observation or agent.call was rejected
Threw(t, msg) ==
    \/ turns'[t].pc = "failed" /\ turns'[t].steps = turns[t].steps
    \/ turns'[t].pc = "deciding" /\ NewObservation(t) = msg

\* C12: take_screenshot ends after at most maxAttempts polls of its entry,
\* each at least ShotPollMs after the previous one; a poll that sees the entry
\* completed returns success (no error) or raises the fulfiller's error, a
\* poll that does not goes on to the next one, and the last one discards the
\* entry and raises the timeout; the entry is not in the table once the tool
\* has ended.
C12_ShotPollsAreBounded ==
    [][\A t \in Turns :
          (InShot(t) /\ turns'[t] # turns[t]) =>
             LET id == turns[t].requestId
                 seen == /\ MapHas(pendingTabRequests, id)
                         /\ MapGet(pendingTabRequests, id).status = "completed"
                 err == MapGet(pendingTabRequests, id).error
             IN /\ turns[t].attempts < maxAttempts
                /\ now >= turns[t].wakeAt
                /\ InShot(t)' =>
                      /\ ~seen
                      /\ turns'[t].attempts = turns[t].attempts + 1
                      /\ turns'[t].attempts < maxAttempts
                      /\ turns'[t].wakeAt = now + ShotPollMs
                      /\ pendingTabRequests' = pendingTabRequests
                /\ ~InShot(t)' =>
                      /\ ~MapHas(pendingTabRequests', id)
                      /\ (seen /\ err = <<>>) =>
                            /\ turns'[t].pc = "deciding"
                            /\ Includes(NewObservation(t),
                                        <<"Screenshot", "taken", "successfully">>)
                      /\ (seen /\ err # <<>>) => Threw(t, ShotFailed(err))
                      /\ ~seen =>
                            /\ turns[t].attempts = maxAttempts - 1
                            /\ Threw(t, ShotFailed(ShotTimeoutMsg))]_vars

\* C12 witness: the tenth poll gave up and the turn went on without the entry.
C12_Witness ==
    /\ turns[1].pc = "deciding"
    /\ Len(turns[1].steps) = 1
    /\ turns[1].steps[1].observation = ShotFailed(ShotTimeoutMsg)
    /\ now >= StartMs + maxAttempts * ShotPollMs
    /\ pendingTabRequests = <<>>

\* s starts with the tokens of m (String.prototype.startsWith)
BeginsWith(s, m) == Len(s) >= Len(m) /\ SubSeq(s, 1, Len(m)) = m

\* the texts the tools raise
IsFailureText(o) ==
    \/ o \in {NoTargetMsg, ScriptFailedMsg, LaunchFailedMsg}
    \/ BeginsWith(o, <<"Failed to take screenshot:">>)
    \/ BeginsWith(o, <<"Failed to send email:">>)

\* C13: what a tool returns (a step observation that is not a raised
\* failure) begins with a success marker, "Successfully" or "Task completed".
C13_ReturnsBeginWithMarker ==
    [][\A t \in Turns :
          ( /\ turns[t].pc = "tool"
            /\ turns'[t].pc = "deciding"
            /\ ~IsFailureText(NewObservation(t)) )
          => \/ BeginsWith(NewObservation(t), <<"Successfully">>)
             \/ BeginsWith(NewObservation(t), <<"Task", "completed">>)]_vars


\* C14: while the scripted sequence of create_calendar_event or send_email is
\* in progress, the browser session it started on is not closed and not
\* replaced by another handler: the context is open and is still the one the
\* variable browserContext holds.
C14_SessionKeptDuringScript ==
    \A t \in Turns :
        InScript(t) => /\ browserContext = turns[t].session
                       /\ IsOpen(turns[t].session)


\* The persistent contexts that are alive: launched, or being launched, and
\* not closed.
Alive == {i \in 1..Len(contexts) : contexts[i] \in {"launching", "open"}}

\* C15: at most one browser session is alive at any time; ensureBrowserOpen
\* does not call launchPersistentContext while a context launched earlier is
\* still open or still being launched.
C15_OneSessionAlive == Cardinality(Alive) <= 1


\* C16: when POST /invoke has run the agent and sends its response, 200 or
\* 500, both session variables are absent and no context is open.
C16_ClosedAtResponse ==
    [][\A t \in Turns :
          ( /\ turns[t].pc \in {"wrapped", "failed"}
            /\ turns'[t].pc = "responded" )
          => /\ browserContext' = NULL
             /\ page' = NULL
             /\ \A i \in 1..Len(contexts') : contexts'[i] # "open"]_vars


\* The prompt contains "calendar" or "event" in any letter case.
MentionsCalendar(prompt) ==
    \E i \in 1..Len(prompt) : prompt[i] \in {"calendar", "Calendar", "event", "Event"}

\* C17: POST /invoke with a prompt that mentions calendar or event while no
\* profile is stored answers needsLogin at once: the handler's step changes
\* nothing but that request's response (no agent step, no tool, no context
\* launched or closed, relay table unchanged), and the request does nothing
\* afterwards.
C17_NeedsLoginTouchesNothing ==
    [][\A t \in Turns :
          /\ ( /\ turns[t].pc = "idle"
               /\ turns'[t].pc # "idle"
               /\ MentionsCalendar(turns'[t].prompt)
               /\ ~hasStoredSession )
             => /\ turns'[t] = [IdleTurn EXCEPT !.pc = "responded",
                                                !.response = "needsLogin",
                                                !.prompt = turns'[t].prompt]
                /\ UNCHANGED <<timers, storage, floatingChats,
                               browserContext, page, contexts, hasStoredSession, calendar,
                               pendingTabRequests, createdBy>>
          /\ turns[t].response = "needsLogin" => turns'[t] = turns[t]]_vars

C17_Witness ==
    /\ turns[1].response = "needsLogin"
    /\ turns[1].prompt = <<"add", "to", "my", "Calendar">>
    /\ ~hasStoredSession
    /\ contexts = <<>>



\* C18: when a step of a scripted sequence fails without a fallback that
\* works, no later step of the sequence is executed, in particular not the
\* confirming keystroke; the session is closed before the tool is left; and
\* the tool raises the failure instead of returning a success string.
C18_FailureAbortsSequence ==
    [][\A t \in Turns :
          ( /\ InScript(t)
            /\ turns'[t].pc # "tool"
            /\ turns'[t].script.unrecovered # NULL )
          => /\ ~turns'[t].script.confirmed
             /\ \/ Threw(t, ScriptFailedMsg)
                \/ Threw(t, EmailFailed(ScriptFailedMsg))
             /\ browserContext' = NULL
             /\ page' = NULL
             /\ contexts'[CtxIndex(turns[t].session)] # "open"]_vars


\* callback p takes up an entry of its snapshot in this step
Dispatches(p) ==
    /\ p \in 1..Len(passes)
    /\ Len(passes') = Len(passes)
    /\ passes[p].stage = "loop"
    /\ passes'[p].stage \in {"capture", "postErr", "create"}

\* callback p is about to post the rate limit error for the entry it holds
Rejecting(p) ==
    /\ passes[p].stage = "postErr"
    /\ passes[p].body.error = RateLimitMsg

\* C20: a screenshot request the poller takes up less than RateLimitMs after
\* the capture it accepted last is not captured but rejected at once: the
\* callback posts the rate limit error as the request's completion, the
\* request was not captured and is still waited for by take_screenshot,
\* which then fails with that error; a capture is started only when none was
\* accepted in the last RateLimitMs, and lastScreenshotTime is the time of the
\* capture accepted last.
C20_RateLimitRejectsAtOnce ==
    [][/\ \A p \in 1..Len(passes) :
            ( /\ Dispatches(p)
              /\ passes'[p].snapshot[passes'[p].idx].data.action = "screenshot" )
            => IF lastScreenshotTime # 0 /\ now - lastScreenshotTime < RateLimitMs
               THEN /\ passes'[p].stage = "postErr"
                    /\ passes'[p].body.error = RateLimitMsg
                    /\ lastScreenshotTime' = lastScreenshotTime
               ELSE /\ passes'[p].stage = "capture"
                    /\ lastScreenshotTime' = now
       /\ lastScreenshotTime' # lastScreenshotTime
            => \E p \in 1..Len(passes) : Dispatches(p) /\ passes'[p].stage = "capture"
       /\ \A p \in 1..Len(passes') :
            (passes'[p].stage = "postErr" /\ passes'[p].body.error = RateLimitMsg)
            => LET id == passes'[p].snapshot[passes'[p].idx].id
               IN /\ MapHas(pendingTabRequests', id)
                  /\ ~MapGet(pendingTabRequests', id).success
                  /\ id \in DOMAIN createdBy'
                  /\ turns'[createdBy'[id]].pc = "tool"
                  /\ turns'[createdBy'[id]].requestId = id
       /\ \A p \in 1..Len(passes) :
            (Rejecting(p) /\ Len(passes') = Len(passes) /\ passes'[p].stage = "loop")
            => LET id == passes[p].snapshot[passes[p].idx].id
               IN /\ MapGet(pendingTabRequests', id).status = "completed"
                  /\ MapGet(pendingTabRequests', id).error = RateLimitMsg]_vars


\* ------------------------------------------------ the calendar typing steps
Opening_EnterFirst(createClicked, eventClicked) ==
    <<"goto", "Enter", IF createClicked THEN "Create" ELSE "c", "title", "Tab", "Tab">>

\* The UI actions of steps 1 to 6, in the order made: the page is loaded, the
\* dialog is opened by the Create button or by the key c, the Event item is
\* clicked (a failure of that click is only logged), the title is typed, Tab,
\* Tab, Enter.
Opening(createClicked, eventClicked) ==
    <<"goto", IF createClicked THEN "Create" ELSE "c">>
        \o (IF eventClicked THEN <<"Event">> ELSE <<>>)
        \o <<"title", "Tab", "Tab", "Enter">>

\* the rest of the variables when only the script of the calendar tool runs
OnlyCalendar ==
    /\ now = StartMs
    /\ pendingTabRequests = <<>>
    /\ createdBy = [i \in {} |-> 0]
    /\ browserContext = NULL
    /\ page = NULL
    /\ contexts = <<>>
    /\ hasStoredSession = TRUE
    /\ turns = [t \in Turns |-> IdleTurn]
    /\ tabPollingInterval = 0
    /\ lastScreenshotTime = 0
    /\ passes = <<>>
    /\ timers = 0
    /\ storage = NoStorage
    /\ floatingChats = NoFloatingChats

\* Steps 1 to 6 are done, the date field has the focus; now, the dateTime
\* argument and the fields typed so far.  The three calls of
\* parseDateTimeString of one script run on the same day.
InitCalendar ==
    /\ OnlyCalendar
    /\ calendar \in
         { [NoCalendar EXCEPT !.pc = "date", !.dateTime = t, !.today = DateOfDay(n),
                              !.log = Opening(TRUE, TRUE)] :
             t \in DateTimes, n \in NowDays }

\* Step 7: the date is typed as "MONTH, DAY, YEAR", and Tab is pressed
TypeDate ==
    /\ calendar.pc = "date"
    /\ calendar' =
         IF calendar.dateTime # <<>>
         THEN LET r == parseDateTimeString(calendar.dateTime, calendar.today)
              IN [calendar EXCEPT !.pc = "start", !.parsed = r,
                                  !.date = formattedDate(r.targetDate),
                                  !.log = @ \o <<"date", "Tab">>]
         ELSE [calendar EXCEPT !.pc = "start", !.log = @ \o <<"Tab">>]
    /\ UNCHANGED <<timers, storage, floatingChats,
                   now, pendingTabRequests, createdBy, browserContext, page,
                   contexts, hasStoredSession, turns, tabPollingInterval,
                   lastScreenshotTime, passes>>

\* the start time is typed if the text has a time, and Tab is pressed
TypeStartTime ==
    /\ calendar.pc = "start"
    /\ calendar' =
         IF calendar.dateTime # <<>>
         THEN LET r == parseDateTimeString(calendar.dateTime, calendar.today)
              IN IF r.targetTime # NoTime
                 THEN [calendar EXCEPT !.pc = "end", !.parsed = r,
                                       !.start = startTimeString(r.targetTime),
                                       !.log = @ \o <<"start", "Tab">>]
                 ELSE [calendar EXCEPT !.pc = "end", !.parsed = r,
                                       !.log = @ \o <<"Tab">>]
         ELSE [calendar EXCEPT !.pc = "end", !.log = @ \o <<"Tab">>]
    /\ UNCHANGED <<timers, storage, floatingChats,
                   now, pendingTabRequests, createdBy, browserContext, page,
                   contexts, hasStoredSession, turns, tabPollingInterval,
                   lastScreenshotTime, passes>>

\* the end time is typed if the text has a time
TypeEndTime ==
    /\ calendar.pc = "end"
    /\ calendar' =
         IF calendar.dateTime # <<>>
         THEN LET r == parseDateTimeString(calendar.dateTime, calendar.today)
              IN IF r.targetTime # NoTime
                 THEN [calendar EXCEPT !.pc = "done", !.parsed = r,
                                       !.end = endTimeString(r.targetTime),
                                       !.log = @ \o <<"end">>]
                 ELSE [calendar EXCEPT !.pc = "done", !.parsed = r]
         ELSE [calendar EXCEPT !.pc = "done"]
    /\ UNCHANGED <<timers, storage, floatingChats,
                   now, pendingTabRequests, createdBy, browserContext, page,
                   contexts, hasStoredSession, turns, tabPollingInterval,
                   lastScreenshotTime, passes>>

NextCalendar == TypeDate \/ TypeStartTime \/ TypeEndTime

SpecCalendar == InitCalendar /\ [][NextCalendar]_vars

\* ------------------------------------------- the whole script of the tool
\* the current dates taken when the whole script is run
ScriptDayCount == 2

TabPresses == 10

\* create_calendar_event is called with a dateTime or without one
InitScript ==
    /\ OnlyCalendar
    /\ calendar \in
         { [NoCalendar EXCEPT !.pc = "open", !.dateTime = t, !.today = DateOfDay(n)] :
             t \in DateTimes, n \in FirstNowDay..(FirstNowDay + ScriptDayCount - 1) }

\* steps 1 to 6
OpenDialog(createClicked, eventClicked) ==
    /\ calendar.pc = "open"
    /\ calendar' = [calendar EXCEPT !.pc = "date",
                                    !.log = Opening(createClicked, eventClicked)]
    /\ UNCHANGED <<timers, storage, floatingChats,
                   now, pendingTabRequests, createdBy, browserContext, page,
                   contexts, hasStoredSession, turns, tabPollingInterval,
                   lastScreenshotTime, passes>>

\* the Tab presses over the remaining fields, the Enter that adds the event,
\* and closeBrowser()
Confirm ==
    /\ calendar.pc = "done"
    /\ calendar' = [calendar EXCEPT !.pc = "closed",
                       !.log = @ \o [i \in 1..TabPresses |-> "Tab"]
                                 \o <<"Enter", "closeBrowser">>]
    /\ UNCHANGED <<timers, storage, floatingChats,
                   now, pendingTabRequests, createdBy, browserContext, page,
                   contexts, hasStoredSession, turns, tabPollingInterval,
                   lastScreenshotTime, passes>>

\* a page call of the step that is next raises: the catch calls closeBrowser()
\* and rethrows.  During steps 1 to 6 the actions made before it are kept.
ScriptThrows(createClicked, eventClicked, made) ==
    /\ calendar.pc \in {"open", "date", "start", "end", "done"}
    /\ made <= Len(Opening(createClicked, eventClicked))
    /\ calendar.pc # "open" => made = 0 /\ createClicked /\ eventClicked
    /\ calendar' =
         [calendar EXCEPT !.pc = "thrown",
              !.log = IF calendar.pc = "open"
                      THEN SubSeq(Opening(createClicked, eventClicked), 1, made)
                               \o <<"closeBrowser">>
                      ELSE @ \o <<"closeBrowser">>]
    /\ UNCHANGED <<timers, storage, floatingChats,
                   now, pendingTabRequests, createdBy, browserContext, page,
                   contexts, hasStoredSession, turns, tabPollingInterval,
                   lastScreenshotTime, passes>>

NextScript ==
    \/ \E createClicked \in BOOLEAN, eventClicked \in BOOLEAN :
          OpenDialog(createClicked, eventClicked)
    \/ TypeDate
    \/ TypeStartTime
    \/ TypeEndTime
    \/ Confirm
    \/ \E createClicked \in BOOLEAN, eventClicked \in BOOLEAN,
          made \in 0..Len(Opening(TRUE, TRUE)) :
             ScriptThrows(createClicked, eventClicked, made)

SpecScript == InitScript /\ [][NextScript]_vars

\* ------------------------------------------------- claims on the date and time
\* parseDateTimeString has been called on the script's dateTime argument
Parsed == calendar.pc \in {"start", "end", "done"} /\ calendar.dateTime # <<>>

\* the days from now to the targetDate of the last call
DaysOut == DayOf(calendar.parsed.targetDate) - DayOf(calendar.today)

\* the text begins with 'next <weekday>'
IsNextWeekday(text) ==
    /\ Len(text) >= 2
    /\ text[1] = Word(kNext)
    /\ \E i \in 1..Len(WeekdayNames) : text[2] = Word(WeekdayNames[i])

\* C21: for 'next <weekday>', whatever the named weekday and today's weekday,
\* the resolved date is at least 7 days after today.
C21_NextWeekdayAWeekOut ==
    Parsed /\ IsNextWeekday(calendar.dateTime) => DaysOut >= 7

\* the text ends with 'at <hour>', the hour written without minutes or meridiem
IsBareHour(text) ==
    /\ Len(text) >= 2
    /\ text[Len(text) - 1] = wAt
    /\ text[Len(text)].kind = "num"
    /\ text[Len(text)] = Num(text[Len(text)].n, "")

\* C22: an hour written without meridiem is resolved to that hour, minute 0,
\* and the meridiem of the table 12 -> PM, 1..6 -> PM, 7..11 -> AM, else PM;
\* the time is not absent.
C22_BareHourByTable ==
    Parsed /\ IsBareHour(calendar.dateTime) =>
        LET h == calendar.dateTime[Len(calendar.dateTime)].n
        IN calendar.parsed.targetTime =
             [hour |-> h, minute |-> 0,
              period |-> IF h \in 7..11 THEN "AM" ELSE "PM"]

\* the text begins with a weekday name, the one of getDay() value d
IsWeekday(text, d) == Len(text) >= 1 /\ text[1] = Word(WeekdayNames[d + 1])

\* C23: for a weekday name without 'next', whatever the weekday and today's
\* weekday, the resolved date is 1 to 7 days after today and falls on the
\* named weekday; it is 7 days out when today is the named weekday.
C23_WeekdayInComingWeek ==
    \A d \in 0..6 :
        Parsed /\ IsWeekday(calendar.dateTime, d) =>
            /\ DaysOut \in 1..7
            /\ GetDay(calendar.parsed.targetDate) = d
            /\ GetDay(calendar.today) = d => DaysOut = 7

\* a weekday name resolved on that weekday, across a month end
C23_Witness ==
    /\ Parsed
    /\ IsWeekday(calendar.dateTime, GetDay(calendar.today))
    /\ DaysOut = 7
    /\ calendar.parsed.targetDate.month # calendar.today.month

\* the text is '<Month> <day>', possibly followed by more, or is 'M/D'
IsMonthDay(text) ==
    \/ Len(text) >= 2 /\ text[1] \in MonthWords /\ text[2] \in DayTokens
    \/ Len(text) = 1 /\ text[1].kind = "slash"

\* the month written is month m (1..12)
MonthWritten(text, m) ==
    IF text[1].kind = "slash" THEN text[1].n = m
    ELSE StartsWith(monthNames[m], LowerString(text[1].w))

DayWritten(text) == IF text[1].kind = "slash" THEN text[1].d ELSE text[2].n

\* the month and day written name a date of today's year before today
NamesPastDate(text, m) ==
    DayNumber(calendar.today.year, m, DayWritten(text)) < DayOf(calendar.today)

C25_TimeInRange ==
    Parsed =>
        \/ calendar.parsed.targetTime = NoTime
        \/ /\ calendar.parsed.targetTime.hour \in 1..12
           /\ calendar.parsed.targetTime.minute \in 0..59
           /\ calendar.parsed.targetTime.period \in {"AM", "PM"}

\* both times of the event have been typed, the start hour being in 1..12
TimesTyped ==
    /\ calendar.pc = "done"
    /\ calendar.start # <<>>
    /\ calendar.start[1] \in 1..12

OtherPeriod(period) == IF period = "AM" THEN "PM" ELSE "AM"

\* C26: the end time typed is one hour after the start time on the 12-hour
\* clock, the minute unchanged: 11 AM -> 12 PM, 12 PM -> 1 PM, 11 PM -> 12 AM,
\* 12 AM -> 1 AM, any other hour h -> h + 1 with the same meridiem.
C26_EndOneHourLater ==
    TimesTyped =>
        /\ calendar.end # <<>>
        /\ calendar.end[1] = (calendar.start[1] % 12) + 1
        /\ calendar.end[2] = calendar.start[2]
        /\ calendar.end[3] = IF calendar.start[1] = 11
                             THEN OtherPeriod(calendar.start[3])
                             ELSE calendar.start[3]

\* 11:30 PM typed as start and 12:30 AM as end
C26_Witness ==
    /\ TimesTyped
    /\ calendar.start = <<11, <<3, 0>>, "PM">>
    /\ calendar.end = <<12, <<3, 0>>, "AM">>

\* C27 as stated: the meridiem of the end time differs from the start's both
\* when the hour goes from 11 to 12 and when it goes from 12 to 1, and is the
\* start's for every other start hour.
C27_FlipAtElevenAndTwelve ==
    TimesTyped /\ calendar.end # <<>> =>
        calendar.end[3] = IF calendar.start[1] \in {11, 12}
                          THEN OtherPeriod(calendar.start[3])
                          ELSE calendar.start[3]

\* C27 amended: the meridiem of the end time differs from the start's exactly
\* when the hour goes from 11 to 12; from 12 to 1 and for every other start
\* hour it is the start's.
C27_FlipAtElevenOnly ==
    TimesTyped /\ calendar.end # <<>> =>
        (calendar.end[3] # calendar.start[3]) = (calendar.start[1] = 11)

\* 12:00 PM typed as start and 1:00 PM as end
C27_Witness ==
    /\ TimesTyped
    /\ calendar.start = <<12, <<0, 0>>, "PM">>
    /\ calendar.end = <<1, <<0, 0>>, "PM">>

\* token i writes the hour h, with minute mm or none, and then am or pm
WritesClock(text, i, h, mm, period) ==
    /\ text[i].kind = "num"
    /\ text[i].n = h
    /\ mm = IF text[i].colon THEN text[i].mm ELSE 0
    /\ \/ text[i].sfx \in (IF period = "AM" THEN {"am", "AM"} ELSE {"pm", "PM"})
       \/ /\ text[i].sfx = "" /\ i < Len(text)
          /\ text[i + 1] = IF period = "AM" THEN wAM ELSE wPM

\* C28: a text in which '<h>[:<mm>] am|pm' is written resolves to the time
\* (h, mm or 0, that meridiem), a text with the word 'noon' to (12, 0, PM)
\* and one with the word 'midnight' to (12, 0, AM), whatever the date
\* expression and the other words of the text.
C28_WrittenTimeIsResolved ==
    Parsed =>
        \A i \in 1..Len(calendar.dateTime) :
            /\ \A h \in 0..(MaxHour + 1), mm \in {0, 5, 30, 60}, period \in {"AM", "PM"} :
                  WritesClock(calendar.dateTime, i, h, mm, period) =>
                      calendar.parsed.targetTime =
                          [hour |-> h, minute |-> mm, period |-> period]
            /\ calendar.dateTime[i] = Word(kNoon) =>
                  calendar.parsed.targetTime =
                      [hour |-> 12, minute |-> 0, period |-> "PM"]
            /\ calendar.dateTime[i] = Word(kMidnight) =>
                  calendar.parsed.targetTime =
                      [hour |-> 12, minute |-> 0, period |-> "AM"]

\* the scenario of the usage guide: 'June 10th at 12' on the first of May, all
\* three fields done
LunchScenario ==
    /\ calendar.pc = "done"
    /\ calendar.dateTime = <<wJune, Num(10, "th"), wAt, Num(12, "")>>
    /\ calendar.today.month = 5 /\ calendar.today.day = 1

\* C29: for 'June 10th at 12' on the first of May the date resolved is the
\* 10th of June of the current year and the time 12:00 PM; the date typed is
\* 'June, 10, <year>', the start time '12:00 PM' and the end time '1:00 PM'.
C29_LunchScenario ==
    LunchScenario =>
        /\ calendar.parsed.targetDate =
             [year |-> calendar.today.year, month |-> 6, day |-> 10]
        /\ calendar.parsed.targetTime = [hour |-> 12, minute |-> 0, period |-> "PM"]
        /\ calendar.date = <<wJune.w, 10, calendar.today.year>>
        /\ calendar.start = <<12, <<0, 0>>, "PM">>
        /\ calendar.end = <<1, <<0, 0>>, "PM">>

\* the text begins with 'in <N> day(s)'
IsInDays(text) ==
    /\ Len(text) >= 3
    /\ text[1] = Word(kIn)
    /\ text[2] = Num(text[2].n, "")
    /\ text[3] \in {Word(kDay), wDays}

\* the text begins with a relative expression, or has no date expression
IsRelative(text) ==
    \/ text[1] \in {Word(kTomorrow), wToday}
    \/ Len(text) >= 2 /\ text[1] = Word(kNext) /\ text[2] = Word(kWeek)
    \/ IsInDays(text)
    \/ text \in TimeParts

\* the day offset the relative expression stands for
RelativeOffset(text) ==
    IF text[1] = Word(kTomorrow) THEN 1
    ELSE IF text[1] = wToday THEN 0
    ELSE IF text[1] = Word(kNext) THEN 7
    ELSE IF IsInDays(text) THEN text[2].n
    ELSE 0

\* the text after the relative expression
AfterRelative(text) ==
    SubSeq(text,
           (IF text[1] \in {Word(kTomorrow), wToday} THEN 2
            ELSE IF text[1] = Word(kNext) THEN 3
            ELSE IF IsInDays(text) THEN 4
            ELSE 1),
           Len(text))

IsCalendarDate(date) ==
    /\ date.month \in 1..12
    /\ date.day \in 1..DaysInMonth(date.year, date.month)

\* C30: 'tomorrow' resolves to the day after today, 'today' to today, 'next
\* week' to 7 days and 'in N days' to N days after today, also across month
\* and year ends; a text without date expression resolves to today; and the
\* time resolved is the one of the rest of the text taken alone.
C30_RelativeOffsets ==
    Parsed /\ IsRelative(calendar.dateTime) =>
        /\ IsCalendarDate(calendar.parsed.targetDate)
        /\ DaysOut = RelativeOffset(calendar.dateTime)
        /\ calendar.parsed.targetTime = TargetTime(AfterRelative(calendar.dateTime))

\* 'in N days' with a time, resolved across the end of the year
C30_Witness ==
    /\ Parsed /\ IsInDays(calendar.dateTime)
    /\ calendar.parsed.targetDate.year = calendar.today.year + 1
    /\ DaysOut = calendar.dateTime[2].n
    /\ calendar.parsed.targetTime # NoTime

\* the text begins with '<Month> <day>'
IsMonthThenDay(text) ==
    Len(text) >= 2 /\ text[1] \in MonthWords /\ text[2] \in DayTokens

\* C36: '<Month> <day>', the month written in full or abbreviated, in any
\* case, the day with or without ordinal suffix, resolves to that month and
\* that day of the month, in the current or the next year, whatever today's
\* date is.
C36_MonthDayResolvedExactly ==
    Parsed /\ IsMonthThenDay(calendar.dateTime) =>
        \A m \in 1..12 :
            /\ MonthWritten(calendar.dateTime, m)
            /\ DayWritten(calendar.dateTime) <= DaysInMonth(calendar.today.year, m)
            /\ DayWritten(calendar.dateTime) <= DaysInMonth(calendar.today.year + 1, m)
            => /\ calendar.parsed.targetDate.month = m
               /\ calendar.parsed.targetDate.day = DayWritten(calendar.dateTime)
               /\ calendar.parsed.targetDate.year
                    \in {calendar.today.year, calendar.today.year + 1}

\* the text ends with the time expression t, after something else
EndsWithTime(text, t) ==
    /\ t # <<>>
    /\ Len(text) > Len(t)
    /\ SubSeq(text, Len(text) - Len(t) + 1, Len(text)) = t

\* C37: the resolved date does not depend on the time expression of the text:
\* a text ending in 'at 6pm', 'at noon' or 'at 12' resolves to the date of the
\* text without it, 'M/D at <time>' to the date of 'M/D' alone.
C37_DateIndependentOfTime ==
    Parsed =>
        \A t \in FewTimeParts :
            EndsWithTime(calendar.dateTime, t) =>
                calendar.parsed.targetDate =
                    TargetDate(SubSeq(calendar.dateTime, 1,
                                      Len(calendar.dateTime) - Len(t)),
                               calendar.today)

\* the sequences of UI actions that open the dialog and enter the title
Openings ==
    { <<"goto", create>> \o event \o <<"title", "Tab", "Tab", "Enter">> :
        create \in {"Create", "c"}, event \in {<<>>, <<"Event">>} }

\* the actions from the date field on, the date typed or not, the times typed
\* or not
FromDateOn(dated, timed) ==
    (IF dated THEN <<"date">> ELSE <<>>) \o <<"Tab">>
        \o (IF timed THEN <<"start">> ELSE <<>>) \o <<"Tab">>
        \o (IF timed THEN <<"end">> ELSE <<>>)
        \o [i \in 1..10 |-> "Tab"] \o <<"Enter", "closeBrowser">>

IsPrefixOf(p, q) == Len(p) <= Len(q) /\ SubSeq(q, 1, Len(p)) = p

SessionUsable == browserContext # NULL /\ IsOpen(browserContext) /\ PageUsable

\* C31: ensureBrowserOpen called while a connected session with an open page
\* is held creates nothing and leaves session and page as they are; and when
\* it returns, a session and a page are held, usable, and no other session is
\* alive.
C31_EnsureIdempotent ==
    [][\A t \in Turns :
          /\ ( /\ turns[t].pc # "tool"
               /\ turns'[t].pc = "tool" /\ turns'[t].tool \in Scripted
               /\ SessionUsable )
             => UNCHANGED <<contexts, browserContext, page>>
          /\ (~InScript(t) /\ InScript(t)')
             => /\ browserContext' # NULL /\ page' # NULL
                /\ SessionUsable'
                /\ Cardinality(Alive') = 1]_vars

\* the executor of turn t stopped at the iteration cap and no step of it
\* carries a success marker
CappedWithoutSuccess(t) ==
    /\ HasResult(turns[t])
    /\ turns[t].output = MaxIterMsg
    /\ Len(turns[t].steps) > 0
    /\ \A k \in 1..Len(turns[t].steps) : ~IsSuccess(turns[t].steps[k].observation)

\* C32: when the cap is reached without a success marker, the output is the
\* last step's observation if that contains 'Task completed' and the stop
\* message otherwise; the steps are left as they are.
C32_CapFallsBackToLastStep ==
    \A t \in Turns :
        CappedWithoutSuccess(t) =>
            LET last == turns[t].steps[Len(turns[t].steps)].observation
            IN /\ turns[t].resOutput =
                    IF Includes(last, <<"Task", "completed">>) THEN last
                    ELSE MaxIterMsg
               /\ turns[t].resSteps = turns[t].steps

\* the cap reached after open_new_tab returned without an observed completion
C32_Witness ==
    /\ CappedWithoutSuccess(1)
    /\ turns[1].steps[Len(turns[1].steps)].observation = OpenedRequested
    /\ turns[1].resOutput = OpenedRequested


\* the first tool call of turn record r returned, and what it returned is no
\* failure text
FirstCallSucceeded(r) ==
    Len(r.steps) >= 1 /\ ~IsFailureText(r.steps[1].observation)

\* C33: what a tool returns on success carries a success marker of the
\* wrapper's check; a turn whose first tool call succeeded invokes no tool
\* again and ends with that call's string as output.
C33_SuccessIsRecognized ==
    [][\A t \in Turns :
          /\ ( /\ turns[t].pc = "tool"
               /\ turns'[t].pc = "deciding"
               /\ ~IsFailureText(NewObservation(t)) )
             => IsSuccess(NewObservation(t))
          /\ (turns[t].pc # "tool" /\ turns'[t].pc = "tool")
             => ~FirstCallSucceeded(turns[t])
          /\ (~HasResult(turns[t]) /\ HasResult(turns'[t]) /\ FirstCallSucceeded(turns'[t]))
             => turns'[t].resOutput = turns'[t].steps[1].observation]_vars


\* ------------------------------------------------------------------ C34
\* The request a callback is handling, once its tab has been created
\* (chrome.tabs.create resolved, the completion POST not yet answered).
TabCreatedFor(p) == passes[p].snapshot[passes[p].idx].id

\* C34: an open-tab request is fulfilled once: no callback of the poller has
\* created a tab for a request whose record some callback has already
\* completed, and no two callbacks have each created a tab for the same request.
C34_FulfilledOnce ==
    \A p \in 1..Len(passes) :
        passes[p].stage = "post"
        => /\ MapHas(pendingTabRequests, TabCreatedFor(p))
              => MapGet(pendingTabRequests, TabCreatedFor(p)).status = "pending"
           /\ \A q \in 1..Len(passes) :
                 (passes[q].stage = "post" /\ TabCreatedFor(q) = TabCreatedFor(p)) => q = p


\* ------------------------------------------------------- the floating chat
\* the rest of the variables when only floating chats run
OnlyChats ==
    UNCHANGED <<pendingTabRequests, createdBy, browserContext, page, contexts,
                hasStoredSession, turns, tabPollingInterval, lastScreenshotTime, passes,
                calendar, timers>>

ChatOf(f) == [messages |-> f.chatHistory]

\* allChats[currentChatId] exists
HasCurrentChat(f) == f.currentChatId # NULL /\ MapHas(f.allChats, f.currentChatId)

\* chatHistory.push(message): the chat in allChats receives the message too
\* when its messages are the same array.
Push(f, message) ==
    LET h == Append(f.chatHistory, message)
    IN IF f.aliased /\ HasCurrentChat(f)
       THEN [f EXCEPT !.chatHistory = h,
                      !.allChats = MapSet(@, f.currentChatId, [messages |-> h])]
       ELSE [f EXCEPT !.chatHistory = h]

\* allChats[currentChatId].messages = chatHistory
AssignMessages(f) ==
    [f EXCEPT !.allChats = MapSet(@, f.currentChatId, ChatOf(f)), !.aliased = TRUE]

\* What saveChats() of a tab whose globals are f writes.
SavedBy(f) ==
    [chats |-> f.allChats, currentChatId |-> f.currentChatId, lastUpdateTimestamp |-> now]

\* The storage.onChanged event of a write: it names the keys whose value
\* changed (newTimestamp 0: lastUpdateTimestamp is not among them).
ChangesOf(old, new) ==
    [newTimestamp |-> IF new.lastUpdateTimestamp # old.lastUpdateTimestamp
                      THEN new.lastUpdateTimestamp ELSE 0]

\* saveChats() of the tab, its globals being f: lastUpdateTimestamp is set and
\* chrome.storage.local.set replaces the three keys; every content script
\* with a floating chat is sent the change.
SaveChats(tab, f) ==
    /\ storage' = SavedBy(f)
    /\ floatingChats' =
         [u \in ChatTabs |->
            LET g == IF u = tab THEN [f EXCEPT !.lastUpdateTimestamp = now]
                     ELSE floatingChats[u]
            IN IF storage' # storage /\ g.pc # "unloaded"
               THEN [g EXCEPT !.changes = Append(@, ChangesOf(storage, storage'))]
               ELSE g]

UserMessage(tab, k) == [role |-> "user", content |-> <<"input", tab, k>>]
AssistantMessage(tab, k, ok) ==
    [role |-> "assistant", content |-> <<IF ok THEN "result" ELSE "error", tab, k>>]

\* The submit handler up to its first await: without a current chat a chat is
\* created and saved; else the user message is pushed and saved.
ChatSubmit(tab) ==
    LET f == floatingChats[tab]
    IN /\ f.pc = "idle"
       /\ f.sent < MaxSubmits
       /\ IF ~HasCurrentChat(f)
          THEN SaveChats(tab, [f EXCEPT !.currentChatId = ToString(now),
                                        !.allChats = MapSet(@, ToString(now), [messages |-> <<>>]),
                                        !.aliased = FALSE,
                                        !.sent = @ + 1, !.pc = "created"])
          ELSE SaveChats(tab, [AssignMessages(Push(f, UserMessage(tab, f.sent + 1)))
                                 EXCEPT !.sent = @ + 1, !.pc = "waiting"])
       /\ UNCHANGED now
       /\ OnlyChats

\* The handler resumes after the save of the new chat: the user message is
\* pushed and saved; the assignment raises when the current chat is no longer
\* in allChats, which ends the handler.
ChatSubmitPush(tab) ==
    LET f == floatingChats[tab]
        g == Push(f, UserMessage(tab, f.sent))
    IN /\ f.pc = "created"
       /\ IF HasCurrentChat(g)
          THEN SaveChats(tab, [AssignMessages(g) EXCEPT !.pc = "waiting"])
          ELSE /\ floatingChats' = [floatingChats EXCEPT ![tab] = [g EXCEPT !.pc = "idle"]]
               /\ UNCHANGED storage
       /\ UNCHANGED now
       /\ OnlyChats

\* The agent's answer arrives: the assistant message is pushed and saved.  A
\* success is assigned to the current chat; when that raises, the catch block
\* pushes the error message as well.
ChatReply(tab, ok) ==
    LET f == floatingChats[tab]
        g == Push(f, AssistantMessage(tab, f.sent, ok))
    IN /\ f.pc = "waiting"
       /\ IF ~ok
          THEN SaveChats(tab, [g EXCEPT !.pc = "idle"])
          ELSE IF HasCurrentChat(g)
               THEN SaveChats(tab, [AssignMessages(g) EXCEPT !.pc = "idle"])
               ELSE SaveChats(tab, [Push(g, AssistantMessage(tab, f.sent, FALSE))
                                      EXCEPT !.pc = "idle"])
       /\ UNCHANGED now
       /\ OnlyChats

\* The 30 second timer of the tab fires: the current chat, if it has messages,
\* is saved from this tab's copy.
PeriodicSave(tab) ==
    LET f == [floatingChats[tab] EXCEPT !.fired = TRUE]
    IN /\ f.pc # "unloaded"
       /\ ~floatingChats[tab].fired
       /\ IF HasCurrentChat(f) /\ Len(f.chatHistory) > 0
          THEN SaveChats(tab, AssignMessages(f))
          ELSE /\ floatingChats' = [floatingChats EXCEPT ![tab] = f]
               /\ UNCHANGED storage
       /\ UNCHANGED now
       /\ OnlyChats

\* beforeunload: the same save, after which the content script is gone.
BeforeUnload(tab) ==
    LET f == floatingChats[tab]
        gone == [f EXCEPT !.pc = "unloaded", !.changes = <<>>, !.timeout = 0]
    IN /\ f.pc # "unloaded"
       /\ IF HasCurrentChat(f) /\ Len(f.chatHistory) > 0
          THEN SaveChats(tab, AssignMessages(gone))
          ELSE /\ floatingChats' = [floatingChats EXCEPT ![tab] = gone]
               /\ UNCHANGED storage
       /\ UNCHANGED now
       /\ OnlyChats

\* The storage.onChanged listener of the tab receives a change: an update
\* that is not newer than lastUpdateTimestamp is skipped, any other one
\* (re)starts the debounce timer.
StorageChanged(tab) ==
    LET f == floatingChats[tab]
        e == Head(f.changes)
        rest == [f EXCEPT !.changes = Tail(@)]
    IN /\ f.changes # <<>>
       /\ floatingChats' =
            [floatingChats EXCEPT ![tab] =
               IF e.newTimestamp # 0 /\ e.newTimestamp <= f.lastUpdateTimestamp
               THEN rest
               ELSE [rest EXCEPT !.lastUpdateTimestamp =
                                    IF e.newTimestamp # 0 THEN e.newTimestamp ELSE @,
                                 !.timeout = now + DebounceMs]]
       /\ UNCHANGED <<now, storage>>
       /\ OnlyChats

\* What the callback of chrome.storage.local.get makes of the tab's globals.
Reloaded(f, result) ==
    LET f1 == [f EXCEPT !.lastUpdateTimestamp =
                           IF result.lastUpdateTimestamp # 0 THEN result.lastUpdateTimestamp
                           ELSE @,
                        !.allChats = result.chats, !.aliased = FALSE]
        f2 == IF HasCurrentChat(f1)
                 /\ MapGet(f1.allChats, f1.currentChatId).messages # f1.chatHistory
              THEN [f1 EXCEPT !.chatHistory = MapGet(f1.allChats, f1.currentChatId).messages,
                              !.aliased = TRUE]
              ELSE f1
    IN IF result.currentChatId # NULL /\ result.currentChatId # f2.currentChatId
       THEN IF MapHas(f2.allChats, result.currentChatId)
            THEN [f2 EXCEPT !.currentChatId = result.currentChatId,
                            !.chatHistory = MapGet(f2.allChats, result.currentChatId).messages,
                            !.aliased = TRUE]
            ELSE [f2 EXCEPT !.currentChatId = result.currentChatId]
       ELSE f2

\* The debounce timer of the tab fires: the three keys are read back.
DebounceFire(tab) ==
    LET f == floatingChats[tab]
    IN /\ f.timeout # 0
       /\ now >= f.timeout
       /\ floatingChats' =
            [floatingChats EXCEPT ![tab] = Reloaded([f EXCEPT !.timeout = 0], storage)]
       /\ UNCHANGED <<now, storage>>
       /\ OnlyChats

\* The clock moves by one debounce period.
ChatTick ==
    /\ now + DebounceMs <= StartMs + MaxChatTicks * DebounceMs
    /\ now' = now + DebounceMs
    /\ UNCHANGED <<storage, floatingChats>>
    /\ OnlyChats

NextChat ==
    \/ ChatTick
    \/ \E tab \in ChatTabs : ChatSubmit(tab)
    \/ \E tab \in ChatTabs : ChatSubmitPush(tab)
    \/ \E tab \in ChatTabs, ok \in BOOLEAN : ChatReply(tab, ok)
    \/ \E tab \in ChatTabs : PeriodicSave(tab)
    \/ \E tab \in ChatTabs : BeforeUnload(tab)
    \/ \E tab \in ChatTabs : StorageChanged(tab)
    \/ \E tab \in ChatTabs : DebounceFire(tab)

\* Two tabs whose floating chats were created while nothing was stored.
InitChat == Init /\ ~hasStoredSession

SpecChat == InitChat /\ [][NextChat]_vars

\* ------------------------------------------------------------------ C38
\* The message is in the stored history of the chat.
Stored(st, id, message) ==
    /\ MapHas(st.chats, id)
    /\ \E n \in 1..Len(MapGet(st.chats, id).messages) :
          MapGet(st.chats, id).messages[n] = message

\* C38: a message that is in the stored history of a chat stays in it: no
\* save of any floating chat replaces the stored history with one that lacks
\* the message.
C38_SavedMessagesKept ==
    [][\A i \in 1..Len(storage.chats) :
          \A k \in 1..Len(storage.chats[i].data.messages) :
              Stored(storage', storage.chats[i].id, storage.chats[i].data.messages[k])
      ]_vars

\* ------------------------------------------------------------------ C39
\* C39: when a checkHelperService completes, the polling timer is set if and
\* only if the check found the service healthy; onSuspend clears it; and the
\* timers that were created and not cleared are the one the handle names, so
\* there is never more than one.
C39_PollerFollowsHealth ==
    [][/\ \A reachable \in BOOLEAN :
             CheckHelperService(reachable) => ((tabPollingInterval' # 0) <=> reachable)
       /\ OnSuspend => tabPollingInterval' = 0
       /\ timers' = (IF tabPollingInterval' # 0 THEN 1 ELSE 0)]_vars

\* A healthy check started the polling after the clock had moved, its timer
\* has fired and the callback is running: one timer exists.
C39_Witness ==
    /\ timers = 1
    /\ tabPollingInterval > StartMs + 2 * PollIntervalMs
    /\ now < tabPollingInterval - PollIntervalMs + 1
    /\ passes # <<>>


\* ------------------------------------------------- the poller left running
NumLeft == 2             \* entries that returned tool calls left in the table

LeftId(i) == RequestId(StartMs - i)

\* The entries that open_new_tab or navigate_browser calls left in the table
\* when they returned without having observed the completion, each completed
\* since or not, in the order of their insertion.
LeftTables ==
    {[i \in 1..NumLeft |->
         [id |-> LeftId(NumLeft + 1 - i),
          data |-> [TabRecord(TabUrl) EXCEPT !.status = status[i]]]] :
       status \in [1..NumLeft -> {"pending", "completed"}]}

\* The helper holds such entries, the polling timer is set and due.
InitPoll ==
    /\ now = StartMs
    /\ pendingTabRequests \in LeftTables
    /\ createdBy = [id \in {LeftId(i) : i \in 1..NumLeft} |-> 1]
    /\ browserContext = NULL
    /\ page = NULL
    /\ contexts = <<>>
    /\ hasStoredSession = TRUE
    /\ turns = [t \in Turns |-> IdleTurn]
    /\ tabPollingInterval = now
    /\ lastScreenshotTime = 0
    /\ passes = <<>>
    /\ calendar = NoCalendar
    /\ timers = 1
    /\ storage = NoStorage
    /\ floatingChats = NoFloatingChats

\* The interval of the timer has passed.  No other step of this specification
\* reads the clock, so the time is counted from the timer's last firing.
TimerDue ==
    /\ tabPollingInterval > now
    /\ tabPollingInterval' = now
    /\ UNCHANGED <<now, pendingTabRequests, createdBy, browserContext, page, contexts,
                   hasStoredSession, calendar, turns, lastScreenshotTime, passes, timers,
                   storage, floatingChats>>

\* The poller runs (no check stops it) and the helper answers every fetch.
NextPoll ==
    \/ TimerDue
    \/ IntervalFire(MaxPasses)
    \/ \E p \in 1..MaxPasses : GetTabRequests(p)
    \/ \E p \in 1..MaxPasses : PassDispatch(p)
    \/ \E p \in 1..MaxPasses, ok \in BOOLEAN : PassCreateTab(p, ok)
    \/ \E p \in 1..MaxPasses : CompleteTabRequest(p)

\* The timer keeps firing while it is set, and every promise a callback
\* awaits is settled.
FairPoll ==
    /\ WF_vars(TimerDue)
    /\ WF_vars(IntervalFire(MaxPasses))
    /\ \A p \in 1..MaxPasses :
          /\ WF_vars(GetTabRequests(p))
          /\ WF_vars(PassDispatch(p))
          /\ WF_vars(\E ok \in BOOLEAN : PassCreateTab(p, ok))
          /\ WF_vars(CompleteTabRequest(p))

SpecPoll == InitPoll /\ [][NextPoll]_vars /\ FairPoll

\* ------------------------------------------------------------------ C35
\* C35: while the poller runs and the helper answers, every entry that is
\* pending in the table is eventually completed.
C35_PendingIsCompleted ==
    \A i \in 1..NumLeft :
        (MapGet(pendingTabRequests, LeftId(i)).status = "pending")
           ~> (MapGet(pendingTabRequests, LeftId(i)).status = "completed")

=============================================================================
